---- MODULE Spec2Model ----
(***************************************************************************)
(* Vienna Entity Component System.                                         *)
(*                                                                         *)
(* Two parts of the repository are modelled:                               *)
(*   - the typed registry of include/VECS.h (VecsRegistry<E>,               *)
(*     VecsComponentTable<E>, VecsHandle, VecsIterator, for_each),          *)
(*     specification Spec for the calls of the registry and SpecIter for   *)
(*     for_each between inserts and erases;                                 *)
(*   - the Archetype of the archetype registry (Archetype<ATYPE>),          *)
(*     specification SpecArch.                                              *)
(* C++ indices are 0-based, TLA+ sequences 1-based: row r of a vector v is  *)
(* v[r + 1].                                                                *)
(***************************************************************************)
EXTENDS Integers, Sequences, FiniteSets, TLC

(***************************************************************************)
(* Bounds of the model.                                                    *)
(***************************************************************************)
\* number of insert calls of one run (so also slots and rows per table)
MaxInserts == 3
\* number of update calls of one run that are given a value
MaxUpdates == 1

(***************************************************************************)
(* Program constants.                                                      *)
(***************************************************************************)
\* null value of index_t, the value of index_t{}: the largest value of the
\* index type, larger than every index in use (the largest integer of TLC here)
INDEX_NULL == 2147483647
\* null value of counter16_t / index16_t (all bits set)
COUNTER16_NULL == 65535

\* VecsEntityTypeList: indices of the entity types
EntityTypes == {0, 1}
\* VecsComponentTypeList: indices of the component types
ComponentTypes == {0, 1}
\* the components of entity type E (vtll::has_type<E, C>)
ComponentsOf(E) == IF E = 0 THEN {0, 1} ELSE {1}

\* Component values are opaque data to the registry (it copies them and never
\* looks at them), so every call that takes values is given values no earlier
\* call was given: the n-th insert passes Fresh(n, C) for component C, the
\* n-th update Fresh(-n, C).
Fresh(n, C) == 10 * n + C

VARIABLES
    m_entity_table,   \* VecsRegistryBaseClass::m_entity_table, the slots
    m_first_free,     \* VecsRegistryBaseClass::m_first_free, head of the free list
    m_handles,        \* VecsComponentTable<E>::m_handles, per entity type
    m_components,     \* VecsComponentTable<E>::m_components, per entity type and component
    ents,             \* history: the handles returned by insert, in order, with liveness
    ret,              \* the last call of the registry and what it returned
    fault,            \* an assertion failed or a vector was accessed out of range
    nupd,             \* history: number of update calls that were given a value
    fe,               \* the frame of for_each: its iterators b and e, where it is in
                      \* its loop, and the history of the callback's invocations
    archs,            \* the Archetype objects: m_types, m_maps, m_changeCounter of each
    m_slotMap,        \* the slot map the archetypes reindex: handle -> ArchetypeAndIndex
    pending,          \* the migration whose target row the caller has not completed yet
    archLast,         \* the last call of an Archetype and what it returned
    nents,            \* history: number of entities created in archetypes
    slot_generation,  \* entry_t::m_generation_counter of one slot over its erases
    nerase,           \* history: number of erases of that slot
    hashes,           \* the vector passed to Hash by reference
    hash_arg,         \* history: that vector as the caller filled it
    hash_ret,         \* what Hash returned
    mv,               \* the frame of Archetype::Move while it runs statement by statement
    thr,              \* the frames of the threads that call insert and erase of the
                      \* registry at the same time, and what their last call returned
    m_seg_vector,     \* VecsTable::m_seg_vector: the vector of pointers to the segments
    m_num_segments,   \* VecsTable::m_num_segments
    m_size,           \* VecsTable::m_size
    m_mutex,          \* VecsTable::m_mutex: its exclusive owner and its shared owners
    segments,         \* the segments allocated so far, each an array of N rows
    tt,               \* the frames of the threads that call the table, with the
                      \* thread_local m_reuse_segments of each
    tfault,           \* a call of the table dereferenced a null pointer
    tcalls,           \* history: the number of calls of the table that returned, how
                      \* often each row index was returned by push_back, and whether
                      \* the segment vector was replaced while a row held a value
    arch_mutex,       \* Archetype::m_mutex of every archetype: 0, or the thread that
                      \* holds it exclusively
    mig,              \* the frames of the threads that migrate entities in parallel mode
    sk,               \* a VecsIterator a caller steps and skips ahead with
    sp,               \* the last call of split of a range and the sub-ranges it returned
    ve,               \* a VecsEntity<E> a caller holds: m_handle, m_component_data
    tl                \* history: the last call of the table that names rows, its
                      \* arguments and what it returned

regVars == <<m_entity_table, m_first_free, m_handles, m_components, ents, ret, fault, nupd>>
archVars == <<archs, m_slotMap, pending, archLast, nents>>
genVars == <<slot_generation, nerase>>
hashVars == <<hashes, hash_arg, hash_ret>>
tblVars == <<m_seg_vector, m_num_segments, m_size, m_mutex, segments, tt, tfault, tcalls>>

\* the variables the calls of one part leave alone
lockVars == <<arch_mutex, mig>>
skipVars == <<sk>>
splitVars == <<sp>>
entVars == <<ve>>
rowVars == <<tl>>
extVars == <<tblVars, lockVars, skipVars, splitVars, entVars, rowVars>>
outsideRegistry == <<archVars, genVars, hashVars, mv, thr, extVars>>
outsideArchetype == <<regVars, fe, genVars, hashVars, mv, thr, extVars>>
outsideGeneration == <<regVars, fe, archVars, hashVars, mv, thr, extVars>>
outsideHash == <<regVars, fe, archVars, genVars, mv, thr, extVars>>
outsideMove == <<regVars, fe, genVars, hashVars, thr, extVars>>
outsideThreads == <<ret, nupd, fe, archVars, genVars, hashVars, mv, extVars>>
outsideRows == <<regVars, fe, archVars, genVars, hashVars, mv, thr, lockVars, skipVars,
                 splitVars, entVars>>
outsideTable == <<outsideRows, rowVars>>
outsideMigrate == <<regVars, fe, genVars, hashVars, mv, thr, tblVars, skipVars, splitVars,
                    entVars, rowVars>>
outsideSkip == <<regVars, fe, archVars, genVars, hashVars, mv, thr, tblVars, lockVars,
                 splitVars, entVars, rowVars>>
outsideSplit == <<regVars, fe, archVars, genVars, hashVars, mv, thr, tblVars, lockVars,
                  skipVars, entVars, rowVars>>
outsideEntity == <<fe, archVars, genVars, hashVars, mv, thr, tblVars, lockVars, skipVars,
                   splitVars, rowVars>>

(***************************************************************************)
(* VecsHandle                                                              *)
(***************************************************************************)
VecsHandle(idx, cnt, type) ==
    [m_entity_index |-> idx, m_generation_counter |-> cnt, m_type_index |-> type]

\* VecsHandle{} : all members default constructed, that is null
NullHandle == VecsHandle(INDEX_NULL, COUNTER16_NULL, COUNTER16_NULL)

\* the handle values used as arguments of the calls of the model
Handles ==
    { VecsHandle(i, g, t) : i \in (0..(MaxInserts - 1)) \cup {INDEX_NULL},
                            g \in 0..MaxInserts, t \in EntityTypes }

\* result of a read that returns a std::optional holding v
Some(v) == [value |-> v]
\* result of a read that returns an empty std::optional
Absent == [absent |-> TRUE]
\* result of a read of a row that is no row of the table: the assertion
\* stops the process, or the read returns whatever the memory holds
Garbage == [garbage |-> TRUE]

\* row r (0-based) of vector v
At(v, r) == v[r + 1]

(***************************************************************************)
(* VecsRegistry<E>::contains                                               *)
(***************************************************************************)
\* contains without the comparison of the generation counters
containsIn_NoGeneration(table, handle) ==
    IF handle.m_entity_index = INDEX_NULL \/ handle.m_entity_index >= Len(table)
    THEN FALSE
    ELSE TRUE

containsIn(table, handle) ==
    IF handle.m_entity_index = INDEX_NULL \/ handle.m_entity_index >= Len(table)
    THEN FALSE
    ELSE IF handle.m_generation_counter
              # At(table, handle.m_entity_index).m_generation_counter
         THEN FALSE
         ELSE TRUE

contains(handle) == containsIn(m_entity_table, handle)

\* VecsHandle::is_valid
is_valid(handle) ==
    IF \/ handle.m_entity_index = INDEX_NULL
       \/ handle.m_generation_counter = COUNTER16_NULL
       \/ handle.m_type_index = COUNTER16_NULL
    THEN FALSE
    ELSE contains(handle)

(***************************************************************************)
(* VecsRegistryBaseClass::component<C> -> VecsRegistry<E>::componentE ->    *)
(* VecsComponentTableDerived<E,C>::componentE                               *)
(***************************************************************************)
componentIn(table, handles, comps, handle, C) ==
    IF ~containsIn(table, handle) THEN Absent
    ELSE LET E == handle.m_type_index
             entidx == At(table, handle.m_entity_index).m_next_free_or_comp_index
         IN  IF C \notin ComponentsOf(E) THEN Absent
             \* assert(index.value < m_handles.size())
             ELSE IF entidx < Len(handles[E]) THEN Some(At(comps[E][C], entidx))
                  ELSE Garbage

component(handle, C) == componentIn(m_entity_table, m_handles, m_components, handle, C)

(***************************************************************************)
(* VecsComponentTable<E>                                                   *)
(***************************************************************************)
\* VecsComponentTable<E>::insert: the new handle vector, the new component
\* vectors and the returned index
ComponentTableInsert(handles, comps, E, handle, tuple) ==
    [ m_handles |-> Append(handles, handle),
      m_components |-> [C \in ComponentsOf(E) |-> Append(comps[C], tuple[C])],
      index |-> Len(handles) ]

\* erase that moves the last handle into the row and does not report it
ComponentTableErase_NoCorrection(handles, index) ==
    IF index < Len(handles) - 1
    THEN LET swapped == [handles EXCEPT ![index + 1] = handles[Len(handles)]]
         IN  [ m_handles |-> SubSeq(swapped, 1, Len(handles) - 1),
               corr_hndl |-> NullHandle,
               corr_index |-> INDEX_NULL ]
    ELSE [ m_handles |-> SubSeq(handles, 1, Len(handles) - 1),
           corr_hndl |-> NullHandle,
           corr_index |-> INDEX_NULL ]

\* VecsComponentTable<E>::erase, for index < size: the new handle vector and
\* the returned pair (handle that changed its row, its new row)
ComponentTableErase(handles, index) ==
    IF index < Len(handles) - 1
    THEN LET swapped == [handles EXCEPT ![index + 1] = handles[Len(handles)]]
             popped == SubSeq(swapped, 1, Len(handles) - 1)
         IN  [ m_handles |-> popped,
               corr_hndl |-> At(popped, index),
               corr_index |-> index ]
    ELSE [ m_handles |-> SubSeq(handles, 1, Len(handles) - 1),
           corr_hndl |-> NullHandle,
           corr_index |-> INDEX_NULL ]

\* VecsComponentTableDerived<E,C>::updateC: memcpy into component C of row entidx
ComponentTableUpdateC(comps, entidx, C, value) ==
    [comps EXCEPT ![C] = [@ EXCEPT ![entidx + 1] = value]]

\* VecsComponentTable<E>::update(index, ent): every component of row index
ComponentTableUpdate(comps, E, index, tuple) ==
    [C \in ComponentsOf(E) |-> [comps[C] EXCEPT ![index + 1] = tuple[C]]]

(***************************************************************************)
(* VecsRegistry<E>                                                         *)
(***************************************************************************)
\* a default constructed entry_t
NewEntry == [m_next_free_or_comp_index |-> INDEX_NULL, m_generation_counter |-> 0]

\* VecsRegistry<E>::insert, first part: the slot taken from the free list or
\* appended to the entity table
AllocSlot_Append(table, first_free) ==
    [ idx |-> Len(table),
      m_entity_table |-> Append(table, NewEntry),
      m_first_free |-> first_free ]

AllocSlot(table, first_free) ==
    IF first_free # INDEX_NULL
    THEN [ idx |-> first_free,
           m_entity_table |-> table,
           m_first_free |-> At(table, first_free).m_next_free_or_comp_index ]
    ELSE [ idx |-> Len(table),
           m_entity_table |-> Append(table, NewEntry),
           m_first_free |-> first_free ]

\* erase that leaves the generation counter as it is
NextGeneration_NoIncrement(g) == g

\* VecsRegistry<E>::erase: the generation counter of the erased slot
NextGeneration(g) ==
    IF g + 1 = COUNTER16_NULL THEN 0 ELSE g + 1

\* erase that ends the free list at the erased slot
LinkFreeSlot_Null(first_free) == INDEX_NULL

\* VecsRegistry<E>::erase: m_next_free_or_comp_index of the erased slot, which
\* is put in front of the free list
LinkFreeSlot(first_free) == first_free

\* the index VecsRegistry<E>::updateC, componentE and erase use as row of the handle
RowOfHandle(table, handle) ==
    At(table, handle.m_entity_index).m_next_free_or_comp_index

\* the index VecsRegistry<E>::update(handle, ent) uses as row of the handle
RowOfUpdate(table, handle) ==
    handle.m_entity_index

Ret(op, h, ok, data) == [op |-> op, h |-> h, ok |-> ok, data |-> data]

\* VecsRegistryBaseClass::size<void>: the sum of VecsComponentTable<type>().size()
\* over the entity types
RECURSIVE SumOfSizes(_, _)
SumOfSizes(handles, types) ==
    IF types = <<>> THEN 0
    ELSE Len(handles[Head(types)]) + SumOfSizes(handles, Tail(types))

\* the handles insert has returned so far
Issued == { ents[i].h : i \in 1..Len(ents) }

\* h is the handle of an entity that was inserted and not erased since
Live(h) == \E i \in 1..Len(ents) : ents[i].h = h /\ ents[i].alive

\* the values of the next call that takes values
InsertTuple(E) == [C \in ComponentsOf(E) |-> Fresh(Len(ents) + 1, C)]
UpdateValue(C) == Fresh(-(nupd + 1), C)
UpdateTuple(E) == [C \in ComponentsOf(E) |-> UpdateValue(C)]

(***************************************************************************)
(* VecsIterator<Cs...>, VecsIteratorDerived<E, Cs...>                      *)
(***************************************************************************)
\* entity_types = vtll::filter_have_all_types<VecsEntityTypeList, Cs...>, in
\* the order of the list
EntityTypeSeq == <<0, 1>>

RECURSIVE FilterHaveAllTypes(_, _)
FilterHaveAllTypes(types, Cs) ==
    IF types = <<>> THEN <<>>
    ELSE LET rest == FilterHaveAllTypes(Tail(types), Cs)
         IN  IF Cs \subseteq ComponentsOf(Head(types)) THEN <<Head(types)>> \o rest
             ELSE rest

entity_types(Cs) == FilterHaveAllTypes(EntityTypeSeq, Cs)

\* VecsIterator(bool is_end): m_dispatch[i] is the m_current_index of the i-th
\* VecsIteratorDerived
IteratorNew(handles, Cs, is_end) ==
    LET types == entity_types(Cs)
    IN  [ m_current_iterator |-> IF is_end THEN Len(types) - 1 ELSE 0,
          m_is_end |-> is_end,
          m_dispatch |-> [i \in 1..Len(types) |->
                            IF is_end THEN Len(handles[types[i]]) ELSE 0] ]

\* the entity type of the table the iterator is in
IteratorType(Cs, it) == At(entity_types(Cs), it.m_current_iterator)

\* VecsIteratorDerived::is_vector_end of the current table
IteratorIsVectorEnd(handles, Cs, it) ==
    At(it.m_dispatch, it.m_current_iterator) >= Len(handles[IteratorType(Cs, it)])

\* VecsIterator::operator== that compares the row index of every table
IteratorEq_EveryTable(this, v) ==
    /\ v.m_current_iterator = this.m_current_iterator
    /\ v.m_dispatch = this.m_dispatch

\* VecsIterator::operator==
IteratorEq(this, v) ==
    /\ v.m_current_iterator = this.m_current_iterator
    /\ At(v.m_dispatch, this.m_current_iterator)
         = At(this.m_dispatch, this.m_current_iterator)

\* VecsIterator::is_valid
IteratorIsValid(table, handles, Cs, it) ==
    IF it.m_is_end \/ IteratorIsVectorEnd(handles, Cs, it) THEN FALSE
    ELSE LET h == At(handles[IteratorType(Cs, it)], At(it.m_dispatch, it.m_current_iterator))
         IN  IF \/ h.m_entity_index = INDEX_NULL
                \/ h.m_generation_counter = COUNTER16_NULL
                \/ h.m_type_index = COUNTER16_NULL
             THEN FALSE
             ELSE containsIn(table, h)

\* operator++ that goes to the next table without testing is_vector_end
IteratorInc_NoVectorEnd(handles, Cs, it) ==
    LET cur == it.m_current_iterator
        it1 == [it EXCEPT !.m_dispatch[cur + 1] = @ + 1]
    IN  IF cur < Len(it.m_dispatch) - 1
        THEN [it1 EXCEPT !.m_current_iterator = cur + 1]
        ELSE it1

\* VecsIterator::operator++
IteratorInc(handles, Cs, it) ==
    LET cur == it.m_current_iterator
        it1 == [it EXCEPT !.m_dispatch[cur + 1] = @ + 1]
    IN  IF IteratorIsVectorEnd(handles, Cs, it1) /\ cur < Len(it.m_dispatch) - 1
        THEN [it1 EXCEPT !.m_current_iterator = cur + 1]
        ELSE it1

\* VecsIterator::operator* : the handle and the components Cs of the current
\* row; at a row index that is no row of the table, what the read gives is
\* not an entity
IteratorDeref(handles, comps, Cs, it) ==
    LET E == IteratorType(Cs, it)
        row == At(it.m_dispatch, it.m_current_iterator)
    IN  IF row < Len(handles[E])
        THEN [ h |-> At(handles[E], row),
               data |-> [C \in Cs |-> At(comps[E][C], row)] ]
        ELSE [ h |-> NullHandle, data |-> [C \in Cs |-> 0] ]

\* no for_each is running
FeIdle ==
    [ pc |-> "idle", Cs |-> {}, b |-> <<>>, e |-> <<>>, visited |-> <<>>, mutated |-> FALSE ]

\* the registry may be called outside of for_each and from its callback
CallAllowed == fe.pc \in {"idle", "done", "callback"}

\* the frame after a call of the registry that changed it (or not)
FeAfterCall(changed) ==
    IF fe.pc = "callback" THEN [fe EXCEPT !.mutated = @ \/ changed]
    ELSE IF changed THEN FeIdle ELSE fe

(***************************************************************************)
(* The calls of the registry                                               *)
(***************************************************************************)
\* VecsRegistry<E>::insert(args...)
insert(E) ==
    /\ ~fault /\ CallAllowed
    /\ Len(ents) < MaxInserts
    /\ LET slot == AllocSlot(m_entity_table, m_first_free)
           idx == slot.idx
           handle == VecsHandle(idx, At(slot.m_entity_table, idx).m_generation_counter, E)
           tuple == InsertTuple(E)
           tab == ComponentTableInsert(m_handles[E], m_components[E], E, handle, tuple)
       IN  /\ m_first_free' = slot.m_first_free
           /\ m_handles' = [m_handles EXCEPT ![E] = tab.m_handles]
           /\ m_components' = [m_components EXCEPT ![E] = tab.m_components]
           /\ m_entity_table' = [slot.m_entity_table EXCEPT
                                   ![idx + 1].m_next_free_or_comp_index = tab.index]
           /\ ents' = Append(ents, [h |-> handle, alive |-> TRUE, row0 |-> tab.index])
           /\ ret' = Ret("insert", handle, TRUE, tuple)
    /\ fe' = FeAfterCall(TRUE)
    /\ UNCHANGED <<fault, nupd>>
    /\ UNCHANGED outsideRegistry

\* VecsRegistryBaseClass::erase -> VecsRegistry<E>::erase
erase(handle) ==
    /\ ~fault /\ CallAllowed
    /\ IF ~contains(handle)
       THEN /\ ret' = Ret("erase", handle, FALSE, <<>>)
            /\ fe' = FeAfterCall(FALSE)
            /\ UNCHANGED <<m_entity_table, m_first_free, m_handles, ents, fault>>
       ELSE LET hidx == handle.m_entity_index
                E == handle.m_type_index
                row == RowOfHandle(m_entity_table, handle)
            IN  IF row >= Len(m_handles[E])
                THEN \* assert(index.value < m_handles.size()) fails
                     /\ fault' = TRUE
                     /\ UNCHANGED <<m_entity_table, m_first_free, m_handles, ents, ret, fe>>
                ELSE LET r == ComponentTableErase(m_handles[E], row)
                         t1 == IF r.corr_index # INDEX_NULL
                               THEN [m_entity_table EXCEPT
                                       ![r.corr_hndl.m_entity_index + 1].m_next_free_or_comp_index
                                           = r.corr_index]
                               ELSE m_entity_table
                         t2 == [t1 EXCEPT ![hidx + 1] =
                                   [ m_generation_counter |-> NextGeneration(@.m_generation_counter),
                                     m_next_free_or_comp_index |-> LinkFreeSlot(m_first_free) ]]
                     IN  /\ m_handles' = [m_handles EXCEPT ![E] = r.m_handles]
                         /\ m_entity_table' = t2
                         /\ m_first_free' = hidx
                         /\ ents' = [i \in 1..Len(ents) |->
                                       IF ents[i].h = handle
                                       THEN [ents[i] EXCEPT !.alive = FALSE]
                                       ELSE ents[i]]
                         /\ ret' = Ret("erase", handle, TRUE, <<>>)
                         /\ fe' = FeAfterCall(TRUE)
                         /\ UNCHANGED fault
    /\ UNCHANGED <<m_components, nupd>>
    /\ UNCHANGED outsideRegistry

\* VecsHandle::update(C) -> VecsRegistryBaseClass::update<C> -> VecsRegistry<E>::updateC
updateC(handle, C) ==
    /\ ~fault /\ CallAllowed
    /\ nupd < MaxUpdates
    /\ nupd' = nupd + 1
    /\ IF ~contains(handle) \/ C \notin ComponentsOf(handle.m_type_index)
       THEN /\ ret' = Ret("updateC", handle, FALSE, [c \in {C} |-> UpdateValue(C)])
            /\ fe' = FeAfterCall(FALSE)
            /\ UNCHANGED <<m_components, fault>>
       ELSE LET E == handle.m_type_index
                entidx == RowOfHandle(m_entity_table, handle)
            IN  IF entidx >= Len(m_handles[E])
                THEN \* assert(index.value < m_handles.size()) of references() fails
                     /\ fault' = TRUE
                     /\ UNCHANGED <<m_components, ret, fe>>
                ELSE /\ m_components' = [m_components EXCEPT
                            ![E] = ComponentTableUpdateC(@, entidx, C, UpdateValue(C))]
                     /\ ret' = Ret("updateC", handle, TRUE, [c \in {C} |-> UpdateValue(C)])
                     /\ fe' = FeAfterCall(TRUE)
                     /\ UNCHANGED fault
    /\ UNCHANGED <<m_entity_table, m_first_free, m_handles, ents>>
    /\ UNCHANGED outsideRegistry

\* VecsEntity<E>::update -> VecsHandle::update(ent) -> VecsRegistry<E>::update(handle, ent),
\* rejected by contains
updateRejected(handle) ==
    /\ ~fault /\ CallAllowed
    /\ nupd < MaxUpdates
    /\ nupd' = nupd + 1
    /\ ~contains(handle)
    /\ ret' = Ret("update", handle, FALSE, UpdateTuple(handle.m_type_index))
    /\ fe' = FeAfterCall(FALSE)
    /\ UNCHANGED <<m_entity_table, m_first_free, m_handles, m_components, ents, fault>>
    /\ UNCHANGED outsideRegistry

\* ... the row it writes exists in the component vectors
updateInRange(handle) ==
    /\ ~fault /\ CallAllowed
    /\ nupd < MaxUpdates
    /\ nupd' = nupd + 1
    /\ contains(handle)
    /\ LET E == handle.m_type_index
           index == RowOfUpdate(m_entity_table, handle)
       IN  /\ \A C \in ComponentsOf(E) : index < Len(m_components[E][C])
           /\ m_components' = [m_components EXCEPT
                  ![E] = ComponentTableUpdate(@, E, index, UpdateTuple(E))]
    /\ ret' = Ret("update", handle, TRUE, UpdateTuple(handle.m_type_index))
    /\ fe' = FeAfterCall(TRUE)
    /\ UNCHANGED <<m_entity_table, m_first_free, m_handles, ents, fault>>
    /\ UNCHANGED outsideRegistry

\* ... the row it writes is past the end of the component vectors: the write
\* goes to memory that is no element of the vector (nothing the registry reads
\* changes), or the process stops
updateOutOfRange(handle) ==
    /\ ~fault /\ CallAllowed
    /\ nupd < MaxUpdates
    /\ nupd' = nupd + 1
    /\ contains(handle)
    /\ LET E == handle.m_type_index
           index == RowOfUpdate(m_entity_table, handle)
       IN  \E C \in ComponentsOf(E) : index >= Len(m_components[E][C])
    /\ \/ ret' = Ret("update", handle, TRUE, UpdateTuple(handle.m_type_index))
          /\ UNCHANGED fault
       \/ fault' = TRUE /\ UNCHANGED ret
    /\ fe' = FeAfterCall(FALSE)
    /\ UNCHANGED <<m_entity_table, m_first_free, m_handles, m_components, ents>>
    /\ UNCHANGED outsideRegistry

(***************************************************************************)
(* for_each<Cs...>(f)                                                      *)
(***************************************************************************)
\* auto b = begin<Cs...>(); auto e = end<Cs...>();
ForEachBegin(Cs) ==
    /\ ~fault
    /\ fe.pc \in {"idle", "done"}
    /\ fe' = [ pc |-> "loop", Cs |-> Cs,
               b |-> IteratorNew(m_handles, Cs, FALSE),
               e |-> IteratorNew(m_handles, Cs, TRUE),
               visited |-> <<>>, mutated |-> FALSE ]
    /\ UNCHANGED regVars
    /\ UNCHANGED outsideRegistry

\* b != e is false: the loop ends
ForEachEnd ==
    /\ ~fault
    /\ fe.pc = "loop"
    /\ IteratorEq(fe.b, fe.e)
    /\ fe' = [fe EXCEPT !.pc = "done"]
    /\ UNCHANGED regVars
    /\ UNCHANGED outsideRegistry

\* for_each that calls f wherever b is not the end iterator
ForEachTest_NotEnd(table, handles, Cs, b) == ~b.m_is_end

\* for_each: if (b.is_valid()) f(b)
ForEachTest(table, handles, Cs, b) == IteratorIsValid(table, handles, Cs, b)

\* b != e and b.is_valid(): f(b) is called
ForEachCall ==
    /\ ~fault
    /\ fe.pc = "loop"
    /\ ~IteratorEq(fe.b, fe.e)
    /\ ForEachTest(m_entity_table, m_handles, fe.Cs, fe.b)
    /\ fe' = [fe EXCEPT !.pc = "callback",
                        !.visited = Append(@, IteratorDeref(m_handles, m_components, fe.Cs, fe.b))]
    /\ UNCHANGED regVars
    /\ UNCHANGED outsideRegistry

\* f(b) returns; b++
ForEachReturn ==
    /\ ~fault
    /\ fe.pc = "callback"
    /\ At(fe.b.m_dispatch, fe.b.m_current_iterator) <= MaxInserts
    /\ fe' = [fe EXCEPT !.pc = "loop", !.b = IteratorInc(m_handles, fe.Cs, @)]
    /\ UNCHANGED regVars
    /\ UNCHANGED outsideRegistry

\* b != e and not b.is_valid(): f is not called; b++
ForEachSkip ==
    /\ ~fault
    /\ fe.pc = "loop"
    /\ ~IteratorEq(fe.b, fe.e)
    /\ ~ForEachTest(m_entity_table, m_handles, fe.Cs, fe.b)
    /\ At(fe.b.m_dispatch, fe.b.m_current_iterator) <= MaxInserts
    /\ fe' = [fe EXCEPT !.b = IteratorInc(m_handles, fe.Cs, @)]
    /\ UNCHANGED regVars
    /\ UNCHANGED outsideRegistry

\* the component lists for_each is called with
ViewTypes == {{0}, {1}, {0, 1}}

(***************************************************************************)
(* Archetype                                                               *)
(***************************************************************************)
\* number of entities created in archetypes
MaxEntities == 3
\* largest value a change counter takes
MaxChangeCounter == 3

\* number of elements a column has room for when it is created (the
\* configured initial capacity of an archetype, 1024 by default)
InitialCapacity == 2

\* the Archetype objects
Archetypes == {1, 2}
\* Type<Handle>() and the Type<T>() of the component types
TypeHandle == "Handle"
ArchComponentTypes == {"A", "B"}

\* the component value an entity is given for a type
ArchValue(h, ti) == [e |-> h, t |-> ti]

\* Vector<T>::push_back
VectorPushBack(v, x) == Append(v, x)
\* Vector<T>::erase: the last element takes the place of the erased one
VectorErase(v, index) ==
    IF index < Len(v) - 1
    THEN SubSeq([v EXCEPT ![index + 1] = v[Len(v)]], 1, Len(v) - 1)
    ELSE SubSeq(v, 1, Len(v) - 1)
\* what Vector<T>::erase returns: the index the last element had
VectorEraseLast(v) == Len(v) - 1
\* Vector<T>::copy: appends the element of other at index from
VectorCopy(v, other, from) == Append(v, At(other, from))
\* Vector<T>::swap: the elements at i and j change places
VectorSwap(v, i, j) == [v EXCEPT ![i + 1] = v[j + 1], ![j + 1] = v[i + 1]]
\* Vector<T>::push_back on v has no room left and grows the storage. A
\* vector starts with room for InitialCapacity elements and gets more only
\* when an element is added to a full vector, so a vector that never held
\* more than InitialCapacity elements and holds that many now is full.
VectorIsFull(v, most) == Len(v) = InitialCapacity /\ most <= InitialCapacity
\* Vector<T>::clone: an empty vector of the same type
VectorClone(v) == <<>>

\* Archetype() = default
DefaultArchetype == [m_types |-> {}, m_maps |-> <<>>, m_changeCounter |-> 0]

\* Archetype::Size
ArchetypeSize(A) == Len(A.m_maps[TypeHandle])

\* Archetype::AddComponent<T>
ArchetypeAddComponent(A, ti) ==
    [ m_types |-> A.m_types \cup {ti},
      m_maps |-> [t \in (DOMAIN A.m_maps) \cup {ti} |->
                     IF t = ti THEN <<>> ELSE A.m_maps[t]],
      m_changeCounter |-> A.m_changeCounter ]

\* Archetype::AddValue
ArchetypeAddValue(A, ti, v) ==
    [A EXCEPT !.m_maps[ti] = VectorPushBack(@, v)]

\* Archetype::Archetype(handle, archIndex, values...): the columns of Ts and
\* of Handle with one row
ArchetypeNew(handle, Ts) ==
    [ m_types |-> Ts \cup {TypeHandle},
      m_maps |-> [t \in Ts \cup {TypeHandle} |->
                     IF t = TypeHandle THEN VectorPushBack(<<>>, handle)
                     ELSE VectorPushBack(<<>>, ArchValue(handle, t))],
      m_changeCounter |-> 0 ]

\* Archetype::Insert: the archetype after the call and the index it returns
ArchetypeInsert(A, handle, Ts) ==
    [ arch |-> [A EXCEPT !.m_maps =
                   [t \in DOMAIN A.m_maps |->
                       IF t = TypeHandle THEN VectorPushBack(A.m_maps[t], handle)
                       ELSE IF t \in Ts THEN VectorPushBack(A.m_maps[t], ArchValue(handle, t))
                       ELSE A.m_maps[t]]],
      ret |-> Len(A.m_maps[TypeHandle]) ]

\* Archetype::Erase2: lastTi is the map the loop over m_maps visits last.
\* Returns the archetype after the call, and the handle that took the place
\* of the erased row (0 if none did)
ArchetypeErase2(A, index, lastTi) ==
    LET last == VectorEraseLast(A.m_maps[lastTi])
        maps == [t \in DOMAIN A.m_maps |-> VectorErase(A.m_maps[t], index)]
    IN  [ arch |-> [A EXCEPT !.m_maps = maps, !.m_changeCounter = @ + 1],
          lastHandle |-> IF index < last THEN At(maps[TypeHandle], index) ELSE 0 ]

\* Erase2 applied to the slot map: the entry of the handle that took the
\* place of the erased row gets the row
SlotMapReindex_None(slots, lastHandle, index) == slots

SlotMapReindex(slots, lastHandle, index) ==
    IF lastHandle # 0
    THEN [slots EXCEPT ![lastHandle].m_archIndex = index]
    ELSE slots

\* Move that copies row 0 of the source instead of row other_index
ArchetypeMove_CopiesFirstRow(T, types, other_index, S, lastTi) ==
    LET maps == [t \in DOMAIN T.m_maps |->
                    IF t \in types THEN VectorCopy(T.m_maps[t], S.m_maps[t], 0)
                    ELSE T.m_maps[t]]
        e == ArchetypeErase2(S, other_index, lastTi)
    IN  [ target |-> [T EXCEPT !.m_maps = maps, !.m_changeCounter = @ + 1],
          other |-> [e.arch EXCEPT !.m_changeCounter = @ + 1],
          lastHandle |-> e.lastHandle,
          ret |-> Len(maps[TypeHandle]) - 1 ]

\* Archetype::Move, called on T with the source S: the two archetypes after
\* the call, the handle Erase2 reindexes, and the index returned
ArchetypeMove(T, types, other_index, S, lastTi) ==
    LET maps == [t \in DOMAIN T.m_maps |->
                    IF t \in types THEN VectorCopy(T.m_maps[t], S.m_maps[t], other_index)
                    ELSE T.m_maps[t]]
        e == ArchetypeErase2(S, other_index, lastTi)
    IN  [ target |-> [T EXCEPT !.m_maps = maps, !.m_changeCounter = @ + 1],
          other |-> [e.arch EXCEPT !.m_changeCounter = @ + 1],
          lastHandle |-> e.lastHandle,
          ret |-> Len(maps[TypeHandle]) - 1 ]

\* Archetype::Clone, called on A
ArchetypeClone(A, other, types) ==
    [ m_types |-> A.m_types \cup types,
      m_maps |-> [t \in (DOMAIN A.m_maps) \cup (types \cap DOMAIN other.m_maps) |->
                     IF t \in types \cap DOMAIN other.m_maps
                     THEN VectorClone(other.m_maps[t])
                     ELSE A.m_maps[t]],
      m_changeCounter |-> A.m_changeCounter ]

\* Archetype::Swap of the rows i1 and i2
ArchetypeSwap(A, i1, i2) ==
    [A EXCEPT !.m_maps = [t \in DOMAIN A.m_maps |-> VectorSwap(A.m_maps[t], i1, i2)],
              !.m_changeCounter = @ + 1]

ArchetypeClear_NoCounter(A) ==
    [A EXCEPT !.m_maps = [t \in DOMAIN A.m_maps |-> <<>>]]

\* Archetype::Clear
ArchetypeClear(A) ==
    [A EXCEPT !.m_maps = [t \in DOMAIN A.m_maps |-> <<>>],
              !.m_changeCounter = @ + 1]

\* Archetype::Get<T>(archIndex) through the slot of handle h
ArchGet(as, slots, h, ti) ==
    At(as[slots[h].m_archetypePtr].m_maps[ti], slots[h].m_archIndex)

\* ArchetypeAndIndex of a handle that has no entity
NoSlot == [m_archetypePtr |-> 0, m_archIndex |-> 0]
NoPending == [a |-> 0, h |-> 0, missing |-> {}]
ArchRet(op, a, other, types, index, r, h) ==
    [op |-> op, a |-> a, other |-> other, types |-> types, index |-> index, ret |-> r, h |-> h]

\* the archetype has been constructed with a Handle column
Constructed(a) == TypeHandle \in DOMAIN archs[a].m_maps
\* no migration waits for the values of its new components
NoMigration == pending.missing = {}

\* Archetype a is created for a new entity with the components Ts; the
\* caller records the entity in the slot map
ArchNew(a, Ts) ==
    /\ NoMigration
    /\ archs[a] = DefaultArchetype
    /\ nents < MaxEntities
    /\ LET h == nents + 1
       IN  /\ archs' = [archs EXCEPT ![a] = ArchetypeNew(h, Ts)]
           /\ m_slotMap' = [m_slotMap EXCEPT ![h] = [m_archetypePtr |-> a, m_archIndex |-> 0]]
           /\ archLast' = ArchRet("Archetype", a, a, Ts, 0, 0, h)
           /\ nents' = h
    /\ UNCHANGED pending
    /\ UNCHANGED outsideArchetype

\* Archetype::Insert of a new entity with the components of the archetype
ArchInsert(a) ==
    /\ NoMigration
    /\ Constructed(a)
    /\ nents < MaxEntities
    /\ LET h == nents + 1
           Ts == (DOMAIN archs[a].m_maps) \ {TypeHandle}
           r == ArchetypeInsert(archs[a], h, Ts)
       IN  /\ Ts # {}
           /\ archs' = [archs EXCEPT ![a] = r.arch]
           /\ m_slotMap' = [m_slotMap EXCEPT ![h] = [m_archetypePtr |-> a, m_archIndex |-> r.ret]]
           /\ archLast' = ArchRet("Insert", a, a, Ts, 0, r.ret, h)
           /\ nents' = h
    /\ UNCHANGED pending
    /\ UNCHANGED outsideArchetype

\* Archetype::Erase -> Erase2 of the entity at index; the caller drops the
\* entity from the slot map
ArchErase(a, index, lastTi) ==
    /\ NoMigration
    /\ Constructed(a)
    /\ index < ArchetypeSize(archs[a])
    /\ lastTi \in DOMAIN archs[a].m_maps
    /\ archs[a].m_changeCounter < MaxChangeCounter
    /\ LET h == At(archs[a].m_maps[TypeHandle], index)
           e == ArchetypeErase2(archs[a], index, lastTi)
       IN  /\ archs' = [archs EXCEPT ![a] = e.arch]
           /\ m_slotMap' = [SlotMapReindex(m_slotMap, e.lastHandle, index) EXCEPT ![h] = NoSlot]
           /\ archLast' = ArchRet("Erase", a, a, {}, index, 0, h)
    /\ UNCHANGED <<pending, nents>>
    /\ UNCHANGED outsideArchetype

\* Archetype::Move, called on archetype a: the entity at other_index of the
\* archetype other moves to a. The caller records the returned row in the slot
\* map and owes the values of the columns of a that types does not name.
ArchMove(a, types, other_index, other, lastTi) ==
    /\ NoMigration
    /\ a # other
    /\ Constructed(a) /\ Constructed(other)
    /\ TypeHandle \in types /\ types \subseteq archs[other].m_types
    /\ other_index < ArchetypeSize(archs[other])
    /\ lastTi \in DOMAIN archs[other].m_maps
    /\ archs[a].m_changeCounter < MaxChangeCounter
    /\ archs[other].m_changeCounter + 1 < MaxChangeCounter
    /\ LET h == At(archs[other].m_maps[TypeHandle], other_index)
           m == ArchetypeMove(archs[a], types, other_index, archs[other], lastTi)
       IN  /\ archs' = [archs EXCEPT ![a] = m.target, ![other] = m.other]
           /\ m_slotMap' = [SlotMapReindex(m_slotMap, m.lastHandle, other_index) EXCEPT
                              ![h] = [m_archetypePtr |-> a, m_archIndex |-> m.ret]]
           /\ pending' = [a |-> a, h |-> h, missing |-> (DOMAIN archs[a].m_maps) \ types]
           /\ archLast' = ArchRet("Move", a, other, types, other_index, m.ret, h)
    /\ UNCHANGED nents
    /\ UNCHANGED outsideArchetype

\* Archetype::AddValue by the caller of Move: the value of a component the
\* entity did not have in its old archetype
ArchAddValue(ti) ==
    /\ ti \in pending.missing
    /\ archs' = [archs EXCEPT ![pending.a] =
                    ArchetypeAddValue(@, ti, ArchValue(pending.h, ti))]
    /\ pending' = IF pending.missing = {ti} THEN NoPending
                  ELSE [pending EXCEPT !.missing = @ \ {ti}]
    /\ archLast' = ArchRet("AddValue", pending.a, pending.a, {ti}, 0, 0, pending.h)
    /\ UNCHANGED <<m_slotMap, nents>>
    /\ UNCHANGED outsideArchetype

\* Archetype::Clone, called on the default constructed archetype a
ArchClone(a, other, types) ==
    /\ NoMigration
    /\ a # other
    /\ archs[a] = DefaultArchetype
    /\ Constructed(other)
    /\ TypeHandle \in types /\ types \subseteq archs[other].m_types
    /\ archs' = [archs EXCEPT ![a] = ArchetypeClone(@, archs[other], types)]
    /\ archLast' = ArchRet("Clone", a, other, types, 0, 0, 0)
    /\ UNCHANGED <<m_slotMap, pending, nents>>
    /\ UNCHANGED outsideArchetype

\* Archetype::AddComponent<T>, called on an archetype that has no entity yet
ArchAddComponent(a, ti) ==
    /\ NoMigration
    /\ Constructed(a)
    /\ ArchetypeSize(archs[a]) = 0
    /\ archs[a].m_changeCounter = 0
    /\ ti \notin archs[a].m_types
    /\ archs' = [archs EXCEPT ![a] = ArchetypeAddComponent(@, ti)]
    /\ archLast' = ArchRet("AddComponent", a, a, {ti}, 0, 0, 0)
    /\ UNCHANGED <<m_slotMap, pending, nents>>
    /\ UNCHANGED outsideArchetype

\* Archetype::Swap, called on archetype a with the slots of the entities h1
\* and h2; the indices of the two slots are swapped too
ArchSwap(a, h1, h2) ==
    /\ NoMigration
    /\ Constructed(a)
    /\ m_slotMap[h1].m_archetypePtr = a
    /\ m_slotMap[h2].m_archetypePtr = a
    /\ archs[a].m_changeCounter < MaxChangeCounter
    /\ archs' = [archs EXCEPT ![a] =
                    ArchetypeSwap(@, m_slotMap[h1].m_archIndex, m_slotMap[h2].m_archIndex)]
    /\ m_slotMap' = [m_slotMap EXCEPT ![h1].m_archIndex = m_slotMap[h2].m_archIndex,
                                      ![h2].m_archIndex = m_slotMap[h1].m_archIndex]
    /\ archLast' = ArchRet("Swap", a, a, {}, 0, 0, 0)
    /\ UNCHANGED <<pending, nents>>
    /\ UNCHANGED outsideArchetype

\* Archetype::Clear; the caller drops the entities of a from the slot map
\* Archetype::AddType(ti)
ArchetypeAddType(A, ti) == [A EXCEPT !.m_types = @ \cup {ti}]

ArchAddType(a, ti) ==
    /\ NoMigration
    /\ ti \notin archs[a].m_types
    /\ archs' = [archs EXCEPT ![a] = ArchetypeAddType(@, ti)]
    /\ archLast' = ArchRet("AddType", a, a, {ti}, 0, 0, 0)
    /\ UNCHANGED <<m_slotMap, pending, nents>>
    /\ UNCHANGED outsideArchetype

ArchClear(a) ==
    /\ NoMigration
    /\ Constructed(a)
    /\ archs[a].m_changeCounter < MaxChangeCounter
    /\ archs' = [archs EXCEPT ![a] = ArchetypeClear(@)]
    /\ m_slotMap' = [h \in DOMAIN m_slotMap |->
                        IF m_slotMap[h].m_archetypePtr = a THEN NoSlot ELSE m_slotMap[h]]
    /\ archLast' = ArchRet("Clear", a, a, {}, 0, 0, 0)
    /\ UNCHANGED <<pending, nents>>
    /\ UNCHANGED outsideArchetype

(***************************************************************************)
(* Archetype::Move, statement by statement                                 *)
(***************************************************************************)
\* no call of Move is running
MoveIdle ==
    [pc |-> "idle", a |-> 0, other |-> 0, types |-> {}, todo |-> {},
     other_index |-> 0, lastTi |-> TypeHandle, h |-> 0]

MoveLoopDone_Early(frame) == TRUE

\* the loop over types has visited every type
MoveLoopDone(frame) == frame.todo = {}

\* Move is called on archetype a for the entity at other_index of other
MoveBegin(a, types, other_index, other, lastTi) ==
    /\ mv.pc = "idle"
    /\ NoMigration
    /\ a # other
    /\ Constructed(a) /\ Constructed(other)
    /\ TypeHandle \in types /\ types \subseteq archs[other].m_types
    /\ other_index < ArchetypeSize(archs[other])
    /\ lastTi \in DOMAIN archs[other].m_maps
    /\ archs[a].m_changeCounter < MaxChangeCounter
    /\ archs[other].m_changeCounter + 1 < MaxChangeCounter
    /\ mv' = [pc |-> "copy", a |-> a, other |-> other, types |-> types, todo |-> types,
              other_index |-> other_index, lastTi |-> lastTi,
              h |-> At(archs[other].m_maps[TypeHandle], other_index)]
    /\ UNCHANGED archVars
    /\ UNCHANGED outsideMove

\* one pass of the loop: if( m_maps.contains(ti) ) m_maps[ti]->copy(...)
MoveCopy(ti) ==
    /\ mv.pc = "copy"
    /\ ti \in mv.todo
    /\ archs' = IF ti \in DOMAIN archs[mv.a].m_maps
                THEN [archs EXCEPT ![mv.a].m_maps[ti] =
                         VectorCopy(@, archs[mv.other].m_maps[ti], mv.other_index)]
                ELSE archs
    /\ mv' = [mv EXCEPT !.todo = @ \ {ti}]
    /\ UNCHANGED <<m_slotMap, pending, archLast, nents>>
    /\ UNCHANGED outsideMove

\* other.Erase2(other_index, slotmaps)
MoveErase2 ==
    /\ mv.pc = "copy"
    /\ MoveLoopDone(mv)
    /\ LET e == ArchetypeErase2(archs[mv.other], mv.other_index, mv.lastTi)
       IN  /\ archs' = [archs EXCEPT ![mv.other] = e.arch]
           /\ m_slotMap' = SlotMapReindex(m_slotMap, e.lastHandle, mv.other_index)
    /\ mv' = [mv EXCEPT !.pc = "erased"]
    /\ UNCHANGED <<pending, archLast, nents>>
    /\ UNCHANGED outsideMove

\* ++other.m_changeCounter; ++m_changeCounter; return size() - 1. The caller
\* records the returned row in the slot map and owes the values of the
\* columns of a that types does not name.
MoveReturn ==
    /\ mv.pc = "erased"
    /\ LET r == Len(archs[mv.a].m_maps[TypeHandle]) - 1
       IN  /\ archs' = [archs EXCEPT ![mv.other].m_changeCounter = @ + 1,
                                     ![mv.a].m_changeCounter = @ + 1]
           /\ m_slotMap' = [m_slotMap EXCEPT
                              ![mv.h] = [m_archetypePtr |-> mv.a, m_archIndex |-> r]]
           /\ pending' = [a |-> mv.a, h |-> mv.h,
                          missing |-> (DOMAIN archs[mv.a].m_maps) \ mv.types]
           /\ archLast' = ArchRet("Move", mv.a, mv.other, mv.types, mv.other_index, r, mv.h)
    /\ mv' = MoveIdle
    /\ UNCHANGED nents
    /\ UNCHANGED outsideMove

\* the type lists Archetype(handle, archIndex, values...) is called with
ArchetypeTypeLists == (SUBSET ArchComponentTypes) \ {{}}
\* the type lists Move and Clone are called with
TypeSets == SUBSET (ArchComponentTypes \cup {TypeHandle})

(***************************************************************************)
(* The generation counter of a slot                                        *)
(***************************************************************************)
\* number of erases of the slot in one run
MaxErases == 3
\* distance of the counter values a run starts with from 0 and from the
\* largest value before the null value
GenWindow == 30

\* the values the counter of a slot has after some number of erases, of
\* which a run starts with one of the first and one of the last before the
\* counter overflows
GenerationsAtStart ==
    (0..GenWindow) \cup ((COUNTER16_NULL - 1 - GenWindow)..(COUNTER16_NULL - 1))

\* VecsRegistry<E>::erase, the statements on the generation counter of the
\* erased slot
EraseGeneration ==
    /\ nerase < MaxErases
    /\ slot_generation' = NextGeneration(slot_generation)
    /\ nerase' = nerase + 1
    /\ UNCHANGED outsideGeneration

(***************************************************************************)
(* Hash of a list of type hashes                                           *)
(***************************************************************************)
\* length of the vectors passed to Hash
MaxHashLen == 3

\* std::size_t has 64 bits: a value is its four 16-bit limbs, the least
\* significant first
Limb == 65536
Limbs == 1..4

\* the hashes of the types (typeid(T).hash_code()), among them values whose
\* sums carry into the next limb and out of the 64 bits
TypeHashes ==
    { <<0, 0, 0, 0>>, <<1, 0, 0, 0>>, <<65535, 0, 0, 0>>,
      <<31161, 40503, 0, 0>>, <<65535, 65535, 65535, 65535>> }

\* the literal 0x9e3779b9 converted to std::size_t
GoldenRatio == <<31161, 40503, 0, 0>>

\* x + y of std::size_t, modulo 2^64
WordAdd(x, y) ==
    LET s1 == x[1] + y[1]
        s2 == x[2] + y[2] + (s1 \div Limb)
        s3 == x[3] + y[3] + (s2 \div Limb)
        s4 == x[4] + y[4] + (s3 \div Limb)
    IN  <<s1 % Limb, s2 % Limb, s3 % Limb, s4 % Limb>>

\* x << 6 of std::size_t
WordShl6(x) ==
    [i \in Limbs |-> (x[i] * 64 + (IF i > 1 THEN x[i - 1] \div 1024 ELSE 0)) % Limb]

\* x >> 2 of std::size_t
WordShr2(x) ==
    [i \in Limbs |-> (x[i] \div 4) + (IF i < 4 THEN (x[i + 1] % 4) * 16384 ELSE 0)]

RECURSIVE XorBits(_, _, _)
\* a ^ b of the n low bits
XorBits(a, b, n) ==
    IF n = 0 THEN 0
    ELSE (((a % 2) + (b % 2)) % 2) + 2 * XorBits(a \div 2, b \div 2, n - 1)

\* x ^ y of std::size_t
WordXor(x, y) == [i \in Limbs |-> XorBits(x[i], y[i], 16)]

\* x < y of std::size_t
WordLess(x, y) ==
    \E i \in Limbs : x[i] < y[i] /\ \A j \in (i + 1)..4 : x[j] = y[j]

VectorSort_NoSort(v) == v

\* std::ranges::sort(hashes)
VectorSort(v) == SortSeq(v, WordLess)

\* seed ^= v + 0x9e3779b9 + (seed<<6) + (seed>>2)
HashCombine(seed, v) ==
    WordXor(seed, WordAdd(WordAdd(WordAdd(v, GoldenRatio), WordShl6(seed)), WordShr2(seed)))

RECURSIVE HashFold(_, _, _)
\* the loop of Hash over the elements from the i-th on
HashFold(seed, v, i) ==
    IF i > Len(v) THEN seed ELSE HashFold(HashCombine(seed, v[i]), v, i + 1)

\* Hash(hashes) of a std::vector
Hash(v) == HashFold(<<0, 0, 0, 0>>, VectorSort(v), 1)

\* no call of Hash yet
NoHash == [none |-> TRUE]

\* the vectors of at most n type hashes
VectorsUpTo(n) == UNION { [1..k -> TypeHashes] : k \in 0..n }

\* the orders the elements of v can be given in
PermutationsOf(v) == { [i \in 1..Len(v) |-> v[p[i]]] : p \in Permutations(1..Len(v)) }

\* size_t h = Hash(hashes); the vector is sorted in place
HashCall ==
    /\ hash_ret = NoHash
    /\ hashes' = VectorSort(hashes)
    /\ hash_ret' = Some(Hash(hashes))
    /\ UNCHANGED hash_arg
    /\ UNCHANGED outsideHash

(***************************************************************************)
(* VecsRegistry<E>::insert and erase called by two threads. The functions   *)
(* take no lock, so the statements of the two calls interleave.            *)
(***************************************************************************)
Threads == {1, 2}

NoCall == [op |-> "none", h |-> NullHandle, ok |-> FALSE]

\* a thread that is in no call of the registry
ThreadIdle ==
    [pc |-> "idle", E |-> 0, idx |-> INDEX_NULL, reuse |-> FALSE, h |-> NullHandle,
     row |-> INDEX_NULL, last |-> NoCall]

AllIdle == \A t \in Threads : thr[t].pc = "idle"

\* number of calls of insert that have not returned yet
InsertsRunning == Cardinality({ t \in Threads : thr[t].pc \in {"alloc", "table", "write"} })

\* insert: if (!m_first_free.is_null()) idx = m_first_free; else idx = size()
ThreadInsertBegin(t, E) ==
    /\ ~fault
    /\ thr[t].pc = "idle"
    /\ Len(ents) + InsertsRunning < MaxInserts
    /\ thr' = [thr EXCEPT ![t] =
                 [ThreadIdle EXCEPT !.pc = "alloc", !.E = E,
                                    !.reuse = (m_first_free # INDEX_NULL),
                                    !.idx = IF m_first_free # INDEX_NULL THEN m_first_free
                                            ELSE Len(m_entity_table),
                                    !.last = thr[t].last]]
    /\ UNCHANGED <<m_entity_table, m_first_free, m_handles, m_components, ents, fault>>
    /\ UNCHANGED outsideThreads

\* insert: m_first_free = m_entity_table[m_first_free.value].m_next_free_or_comp_index,
\* or m_entity_table.emplace_back()
ThreadInsertAlloc(t) ==
    /\ ~fault
    /\ thr[t].pc = "alloc"
    /\ IF thr[t].reuse
       THEN IF m_first_free >= Len(m_entity_table)
            THEN \* m_entity_table is read out of range
                 /\ fault' = TRUE
                 /\ UNCHANGED <<m_entity_table, m_first_free, thr>>
            ELSE /\ m_first_free' = At(m_entity_table, m_first_free).m_next_free_or_comp_index
                 /\ thr' = [thr EXCEPT ![t].pc = "table"]
                 /\ UNCHANGED <<m_entity_table, fault>>
       ELSE /\ m_entity_table' = Append(m_entity_table, NewEntry)
            /\ thr' = [thr EXCEPT ![t].pc = "table"]
            /\ UNCHANGED <<m_first_free, fault>>
    /\ UNCHANGED <<m_handles, m_components, ents>>
    /\ UNCHANGED outsideThreads

\* insert: VecsHandle handle{...}; compidx = VecsComponentTable<E>().insert(handle, ...)
ThreadInsertTable(t) ==
    /\ ~fault
    /\ thr[t].pc = "table"
    /\ LET E == thr[t].E
           handle == VecsHandle(thr[t].idx,
                                At(m_entity_table, thr[t].idx).m_generation_counter, E)
           tuple == [C \in ComponentsOf(E) |-> Fresh(10 * t + Len(ents) + 1, C)]
           tab == ComponentTableInsert(m_handles[E], m_components[E], E, handle, tuple)
       IN  /\ m_handles' = [m_handles EXCEPT ![E] = tab.m_handles]
           /\ m_components' = [m_components EXCEPT ![E] = tab.m_components]
           /\ thr' = [thr EXCEPT ![t].pc = "write", ![t].h = handle, ![t].row = tab.index]
    /\ UNCHANGED <<m_entity_table, m_first_free, ents, fault>>
    /\ UNCHANGED outsideThreads

\* insert: m_entity_table[idx.value].m_next_free_or_comp_index = compidx; return handle
ThreadInsertReturn(t) ==
    /\ ~fault
    /\ thr[t].pc = "write"
    /\ m_entity_table' = [m_entity_table EXCEPT
                            ![thr[t].idx + 1].m_next_free_or_comp_index = thr[t].row]
    /\ ents' = Append(ents, [h |-> thr[t].h, alive |-> TRUE, row0 |-> thr[t].row])
    /\ thr' = [thr EXCEPT ![t] =
                 [ThreadIdle EXCEPT !.last = [op |-> "insert", h |-> thr[t].h, ok |-> TRUE]]]
    /\ UNCHANGED <<m_first_free, m_handles, m_components, fault>>
    /\ UNCHANGED outsideThreads

\* erase: if (!contains(handle)) return false; auto hidx = handle.m_entity_index.value
ThreadEraseBegin(t, handle) ==
    /\ ~fault
    /\ thr[t].pc = "idle"
    /\ thr' = [thr EXCEPT ![t] =
                 IF contains(handle)
                 THEN [ThreadIdle EXCEPT !.pc = "etable", !.h = handle,
                                         !.idx = handle.m_entity_index,
                                         !.E = handle.m_type_index, !.last = thr[t].last]
                 ELSE [ThreadIdle EXCEPT !.last = [op |-> "erase", h |-> handle, ok |-> FALSE]]]
    /\ UNCHANGED <<m_entity_table, m_first_free, m_handles, m_components, ents, fault>>
    /\ UNCHANGED outsideThreads

\* erase: auto [corr_hndl, corr_index] = VecsComponentTable<E>().erase(...);
\* if (!corr_index.is_null()) { ... = corr_index; }
ThreadEraseTable(t) ==
    /\ ~fault
    /\ thr[t].pc = "etable"
    /\ LET E == thr[t].E
           row == RowOfHandle(m_entity_table, thr[t].h)
       IN  IF row >= Len(m_handles[E])
           THEN \* assert(index.value < m_handles.size()) fails
                /\ fault' = TRUE
                /\ UNCHANGED <<m_entity_table, m_handles, thr>>
           ELSE LET r == ComponentTableErase(m_handles[E], row)
                IN  /\ m_handles' = [m_handles EXCEPT ![E] = r.m_handles]
                    /\ m_entity_table' =
                          IF r.corr_index # INDEX_NULL
                          THEN [m_entity_table EXCEPT
                                  ![r.corr_hndl.m_entity_index + 1].m_next_free_or_comp_index
                                      = r.corr_index]
                          ELSE m_entity_table
                    /\ thr' = [thr EXCEPT ![t].pc = "egen"]
                    /\ UNCHANGED fault
    /\ UNCHANGED <<m_first_free, m_components, ents>>
    /\ UNCHANGED outsideThreads

\* erase: m_generation_counter.value++; if (is_null()) value = 0
ThreadEraseGeneration(t) ==
    /\ ~fault
    /\ thr[t].pc = "egen"
    /\ m_entity_table' = [m_entity_table EXCEPT
                            ![thr[t].idx + 1].m_generation_counter = NextGeneration(@)]
    /\ thr' = [thr EXCEPT ![t].pc = "efree"]
    /\ UNCHANGED <<m_first_free, m_handles, m_components, ents, fault>>
    /\ UNCHANGED outsideThreads

\* erase: m_next_free_or_comp_index = m_first_free; m_first_free = handle.m_entity_index;
\* return true
ThreadEraseReturn(t) ==
    /\ ~fault
    /\ thr[t].pc = "efree"
    /\ m_entity_table' = [m_entity_table EXCEPT
                            ![thr[t].idx + 1].m_next_free_or_comp_index = m_first_free]
    /\ m_first_free' = thr[t].idx
    /\ ents' = [i \in 1..Len(ents) |->
                  IF ents[i].h = thr[t].h THEN [ents[i] EXCEPT !.alive = FALSE] ELSE ents[i]]
    /\ thr' = [thr EXCEPT ![t] =
                 [ThreadIdle EXCEPT !.last = [op |-> "erase", h |-> thr[t].h, ok |-> TRUE]]]
    /\ UNCHANGED <<m_handles, m_components, fault>>
    /\ UNCHANGED outsideThreads

RECURSIVE FreeListFrom(_, _, _)
\* the slots of the free list from slot i on, at most n of them
FreeListFrom(table, i, n) ==
    IF i = INDEX_NULL \/ i >= Len(table) \/ n = 0 THEN <<>>
    ELSE <<i>> \o FreeListFrom(table, At(table, i).m_next_free_or_comp_index, n - 1)

RECURSIVE FreeListEnd(_, _, _)
\* the index at which following the free list from slot i stops, after at
\* most n slots
FreeListEnd(table, i, n) ==
    IF i = INDEX_NULL \/ i >= Len(table) \/ n = 0 THEN i
    ELSE FreeListEnd(table, At(table, i).m_next_free_or_comp_index, n - 1)

\* the slots reached from m_first_free
FreeList == FreeListFrom(m_entity_table, m_first_free, Len(m_entity_table) + 1)

(***************************************************************************)
(* VecsTable<P, DATA, N0, ROW>                                             *)
(***************************************************************************)
\* template parameter N0: the number of rows of a segment (1 << 10 by default)
TableN0 == 2
\* number of calls of the table in one run
MaxTableCalls == 3
\* capacity: "at least 16" segments
MinSegments == 16

RECURSIVE SmallestPow2Leq(_)
\* vtll::smallest_pow2_leq_value: the largest power of 2 that is at most n
SmallestPow2Leq(n) == IF n <= 1 THEN 1 ELSE 2 * SmallestPow2Leq(n \div 2)

RECURSIVE Log2(_)
Log2(n) == IF n <= 1 THEN 0 ELSE 1 + Log2(n \div 2)

\* N: rows per segment; L: N = 2^L; BIT_MASK = N - 1
TableN == SmallestPow2Leq(TableN0)
TableL == Log2(TableN)

\* n >> L and n & BIT_MASK
ShiftRightL(n) == n \div TableN
MaskBits(n) == n % TableN

\* std::max
Max(a, b) == IF a >= b THEN a ELSE b

\* a shared_ptr<seg_vector_t>: null, or a vector of pointers to segments,
\* each 0 (nullptr) or the number of a segment
NullSegVector == [null |-> TRUE, ptrs |-> <<>>]
SegVector(ptrs) == [null |-> FALSE, ptrs |-> ptrs]

\* a new array_tuple_t: N default constructed rows
NewSegment == [k \in 1..TableN |-> 0]

\* the arguments reserve is called with: rows of the first two segments
ReserveSizes == {TableN, 2 * TableN}
\* the arguments capacity is called with: rows the first vector has room for,
\* and more
CapacitySizes == {2 * TableN, MinSegments * TableN + 1}

\* what size() of a vector reads through a null pointer, when it does not
\* end the program
GarbageSizes == {0, MinSegments + 1}

TableThreadIdle(reuse) ==
    [pc |-> "idle", op |-> "none", r |-> 0, idx |-> 0, i |-> 0, new_num |-> 0,
     segment_ptr |-> 0, expected |-> 0, m_reuse_segments |-> reuse]

TableIdle == \A t \in Threads : tt[t].pc = "idle"

\* number of calls of the table made so far
TableCalls == tcalls.n + Cardinality({ t \in Threads : tt[t].pc # "idle" })

fetch_add_NoAdd(m, n) == [old |-> m, new |-> m]

\* std::atomic<size_t>::fetch_add
fetch_add(m, n) == [old |-> m, new |-> m + n]

\* capacity: is there enough space in the table?
NeedsVector(vec, r) == vec.null \/ r > Len(vec.ptrs) * TableN

CopySegments_None(old, num_segs, n) == [i \in 1..num_segs |-> 0]

\* capacity: the new vector of num_segs pointers with the first n pointers of
\* the old vector copied
CopySegments(old, num_segs, n) ==
    [i \in 1..num_segs |-> IF ~old.null /\ i <= n THEN old.ptrs[i] ELSE 0]

\* capacity: the number of segments of the new vector, size being what
\* segment_ptr->size() read
NumSegs(r, size) == Max(Max(((r - 1) \div TableN) + 1, MinSegments), size * 2)

\* the history after the call of thread t has returned
TableReturned(t) ==
    [ tcalls EXCEPT !.n = @ + 1,
                    !.pushed = IF tt[t].op \in {"push_back", "push_back_data"}
                               THEN [@ EXCEPT ![tt[t].idx] = @ + 1]
                               ELSE @ ]

\* the frame of thread t when reserve has returned true: push_back(data) goes
\* on to tuple_ptr(idx), every other call has returned
TableAfterReserve(t, reuse) ==
    IF tt[t].op = "push_back_data"
    THEN [TableThreadIdle(reuse) EXCEPT !.pc = "pb_write", !.op = tt[t].op,
                                        !.idx = tt[t].idx]
    ELSE TableThreadIdle(reuse)

\* the frame and the history when reserve or capacity of thread t returns
TableReturn(t) ==
    /\ tt' = [tt EXCEPT ![t] = TableAfterReserve(t, tt[t].m_reuse_segments)]
    /\ tcalls' = IF tt[t].op = "push_back_data" THEN tcalls ELSE TableReturned(t)

\* push_back: auto idx = m_size.fetch_add(1); reserve(idx + 1) begins
TablePushBackBegin(t) ==
    /\ ~tfault
    /\ tt[t].pc = "idle"
    /\ TableCalls < MaxTableCalls
    /\ LET fa == fetch_add(m_size, 1)
       IN  /\ m_size' = fa.new
           /\ tt' = [tt EXCEPT ![t] = [@ EXCEPT !.pc = "cap_test", !.op = "push_back",
                                                !.idx = fa.old, !.r = fa.old + 1]]
    /\ UNCHANGED <<m_seg_vector, m_num_segments, m_mutex, segments, tfault, tcalls>>
    /\ UNCHANGED outsideTable

\* reserve(r) or capacity(r) is called
TableReserveBegin(t, op, r) ==
    /\ ~tfault
    /\ tt[t].pc = "idle"
    /\ TableCalls < MaxTableCalls
    /\ tt' = [tt EXCEPT ![t] = [@ EXCEPT !.pc = "cap_test", !.op = op, !.r = r]]
    /\ UNCHANGED <<m_seg_vector, m_num_segments, m_size, m_mutex, segments, tfault, tcalls>>
    /\ UNCHANGED outsideTable

\* capacity: auto segment_ptr{ m_seg_vector.load() }; the first test
TableCapacityTest(t) ==
    /\ ~tfault
    /\ tt[t].pc = "cap_test"
    /\ IF NeedsVector(m_seg_vector, tt[t].r)
       THEN /\ tt' = [tt EXCEPT ![t].pc = "cap_lock"]
            /\ UNCHANGED tcalls
       ELSE IF tt[t].op = "capacity"
            THEN TableReturn(t)
            ELSE /\ tt' = [tt EXCEPT ![t].pc = "res_lock"]
                 /\ UNCHANGED tcalls
    /\ UNCHANGED <<m_seg_vector, m_num_segments, m_size, m_mutex, segments, tfault>>
    /\ UNCHANGED outsideTable

\* capacity: std::lock_guard lock(m_mutex)
TableCapacityLock(t) ==
    /\ ~tfault
    /\ tt[t].pc = "cap_lock"
    /\ m_mutex.writer = 0 /\ m_mutex.readers = {}
    /\ m_mutex' = [m_mutex EXCEPT !.writer = t]
    /\ tt' = [tt EXCEPT ![t].pc = "cap_grow"]
    /\ UNCHANGED <<m_seg_vector, m_num_segments, m_size, segments, tfault, tcalls>>
    /\ UNCHANGED outsideTable

\* the value update writes to row n
RowValue(n) == n + 1

\* component_ptr<I>(n) finds the segment of row n
RowHasSegment(vec, n) ==
    /\ ~vec.null
    /\ ShiftRightL(n) < Len(vec.ptrs)
    /\ vec.ptrs[ShiftRightL(n) + 1] # 0

\* component_ref<I>(n): the component of row n, or what a null pointer gives
TableComponent(vec, segs, n) ==
    IF RowHasSegment(vec, n)
    THEN Some(segs[vec.ptrs[ShiftRightL(n) + 1]][MaskBits(n) + 1])
    ELSE Garbage

\* a row of the table holds the value update wrote to it
HasWrittenRow ==
    \E n \in 0..(m_size - 1) :
        TableComponent(m_seg_vector, segments, n) = Some(RowValue(n))

\* capacity: reload, retest, the new vector, and the end of the lock's scope.
\* segment_ptr->size() of a null segment_ptr is undefined: the program ends
\* or the call goes on with what it read.
TableCapacityGrow(t) ==
    /\ ~tfault
    /\ tt[t].pc = "cap_grow"
    /\ \/ /\ ~NeedsVector(m_seg_vector, tt[t].r)
          /\ UNCHANGED <<m_seg_vector, tfault>>
          /\ m_mutex' = [m_mutex EXCEPT !.writer = 0]
          /\ IF tt[t].op = "capacity" THEN TableReturn(t)
             ELSE tt' = [tt EXCEPT ![t].pc = "res_lock"] /\ UNCHANGED tcalls
       \/ /\ NeedsVector(m_seg_vector, tt[t].r)
          /\ m_seg_vector.null
          /\ tfault' = TRUE
          /\ UNCHANGED <<m_seg_vector, m_mutex, tt, tcalls>>
       \/ /\ NeedsVector(m_seg_vector, tt[t].r)
          /\ \E size \in (IF m_seg_vector.null THEN GarbageSizes
                          ELSE {Len(m_seg_vector.ptrs)}) :
                m_seg_vector' = SegVector(CopySegments(m_seg_vector,
                                             NumSegs(tt[t].r, size), m_num_segments))
          /\ m_mutex' = [m_mutex EXCEPT !.writer = 0]
          /\ UNCHANGED tfault
          /\ tt' = [tt EXCEPT ![t] = IF tt[t].op = "capacity"
                                     THEN TableThreadIdle(tt[t].m_reuse_segments)
                                     ELSE [@ EXCEPT !.pc = "res_lock"]]
          /\ tcalls' = [(IF tt[t].op = "capacity" THEN TableReturned(t) ELSE tcalls)
                          EXCEPT !.regrown = @ \/ HasWrittenRow]
    /\ UNCHANGED <<m_num_segments, m_size, segments>>
    /\ UNCHANGED outsideTable

\* reserve: std::shared_lock lock(m_mutex)
TableReserveLock(t) ==
    /\ ~tfault
    /\ tt[t].pc = "res_lock"
    /\ m_mutex.writer = 0
    /\ m_mutex' = [m_mutex EXCEPT !.readers = @ \cup {t}]
    /\ tt' = [tt EXCEPT ![t].pc = "res_load"]
    /\ UNCHANGED <<m_seg_vector, m_num_segments, m_size, segments, tfault, tcalls>>
    /\ UNCHANGED outsideTable

\* reserve: old_num, new_num = r >> L; if (new_num <= old_num) return true
TableReserveLoad(t) ==
    /\ ~tfault
    /\ tt[t].pc = "res_load"
    /\ LET old_num == m_num_segments
           new_num == ShiftRightL(tt[t].r)
       IN  IF new_num <= old_num
           THEN /\ m_mutex' = [m_mutex EXCEPT !.readers = @ \ {t}]
                /\ TableReturn(t)
           ELSE /\ tt' = [tt EXCEPT ![t] = [@ EXCEPT !.pc = "res_loop", !.i = old_num,
                                                     !.new_num = new_num,
                                                     !.segment_ptr = 0, !.expected = 0]]
                /\ UNCHANGED <<m_mutex, tcalls>>
    /\ UNCHANGED <<m_seg_vector, m_num_segments, m_size, segments, tfault>>
    /\ UNCHANGED outsideTable

\* reserve, in the loop: if (!current_ptr.load() && !segment_ptr) a segment is
\* taken from m_reuse_segments or made
TableReserveSegment(t) ==
    /\ ~tfault
    /\ tt[t].pc = "res_loop"
    /\ LET f == tt[t]
           reuse == f.m_reuse_segments
       IN  IF m_seg_vector.ptrs[f.i + 1] = 0 /\ f.segment_ptr = 0
           THEN IF Len(reuse) > 0
                THEN /\ tt' = [tt EXCEPT ![t] =
                                 [@ EXCEPT !.pc = "res_cas", !.segment_ptr = reuse[Len(reuse)],
                                           !.m_reuse_segments = SubSeq(reuse, 1, Len(reuse) - 1)]]
                     /\ UNCHANGED segments
                ELSE /\ segments' = Append(segments, NewSegment)
                     /\ tt' = [tt EXCEPT ![t] =
                                 [@ EXCEPT !.pc = "res_cas", !.segment_ptr = Len(segments) + 1]]
           ELSE /\ tt' = [tt EXCEPT ![t].pc = "res_cas"]
                /\ UNCHANGED segments
    /\ UNCHANGED <<m_seg_vector, m_num_segments, m_size, m_mutex, tfault, tcalls>>
    /\ UNCHANGED outsideTable

\* reserve, in the loop: current_ptr.compare_exchange_weak(expected, segment_ptr),
\* which may fail although current_ptr holds expected; then ++i
TableReserveExchange(t) ==
    /\ ~tfault
    /\ tt[t].pc = "res_cas"
    /\ LET f == tt[t]
           next == IF f.i + 1 < f.new_num THEN "res_loop" ELSE "res_num"
       IN  \/ /\ m_seg_vector.ptrs[f.i + 1] = f.expected
              /\ m_seg_vector' = [m_seg_vector EXCEPT !.ptrs[f.i + 1] = f.segment_ptr]
              /\ tt' = [tt EXCEPT ![t] = [@ EXCEPT !.pc = next, !.i = f.i + 1,
                                                   !.segment_ptr = 0]]
           \/ /\ UNCHANGED m_seg_vector
              /\ tt' = [tt EXCEPT ![t] = [@ EXCEPT !.pc = next, !.i = f.i + 1,
                                                   !.expected = m_seg_vector.ptrs[f.i + 1]]]
    /\ UNCHANGED <<m_num_segments, m_size, m_mutex, segments, tfault, tcalls>>
    /\ UNCHANGED outsideTable

\* reserve: if (!segment_ptr) m_reuse_segments.push_back(segment_ptr); the
\* loop that raises m_num_segments to new_num; return true. push_back then
\* returns idx.
TableReserveReturn(t) ==
    /\ ~tfault
    /\ tt[t].pc = "res_num"
    /\ m_num_segments' = Max(m_num_segments, tt[t].new_num)
    /\ m_mutex' = [m_mutex EXCEPT !.readers = @ \ {t}]
    /\ tt' = [tt EXCEPT ![t] =
                 TableAfterReserve(t, IF tt[t].segment_ptr = 0
                                      THEN Append(tt[t].m_reuse_segments, tt[t].segment_ptr)
                                      ELSE tt[t].m_reuse_segments)]
    /\ tcalls' = IF tt[t].op = "push_back_data" THEN tcalls ELSE TableReturned(t)
    /\ UNCHANGED <<m_seg_vector, m_size, segments, tfault>>
    /\ UNCHANGED outsideTable

\* update<I>(n, data): *component_ptr<I>(n) = data
TableUpdate(n) ==
    /\ ~tfault
    /\ n < m_size
    /\ IF RowHasSegment(m_seg_vector, n)
       THEN /\ segments' = [segments EXCEPT
                              ![m_seg_vector.ptrs[ShiftRightL(n) + 1]][MaskBits(n) + 1]
                                  = RowValue(n)]
            /\ UNCHANGED tfault
       ELSE /\ tfault' = TRUE
            /\ UNCHANGED segments
    /\ UNCHANGED <<m_seg_vector, m_num_segments, m_size, m_mutex, tt, tcalls>>
    /\ UNCHANGED outsideTable

(***************************************************************************)
(* VecsTable: push_back(data), update, move, swap, pop_back and clear,     *)
(* made by one caller (the calls are externally synchronized)              *)
(***************************************************************************)
\* calls of update, move, swap, pop_back and clear in one run
MaxRowCalls == 3
\* the values update is given for the component of a row
RowData == {1, 2}

NoRowCall == [n |-> 0, op |-> "none", args |-> <<>>, ok |-> "none"]

\* the call op(args) returned ok ("true", "false", "void"), or dereferenced a
\* null segment pointer ("fault")
RowCall(op, args, ok) == [n |-> tl.n + 1, op |-> op, args |-> args, ok |-> ok]

\* tuple_ptr(n): (*vector_ptr)[n >> L], the segment of row n
SegmentOf(vec, n) == vec.ptrs[ShiftRightL(n) + 1]

\* *tuple_ptr(n), the components of row n
SegmentsRead(vec, segs, n) == segs[SegmentOf(vec, n)][MaskBits(n) + 1]

\* *tuple_ptr(n) = v
SegmentsWrite(vec, segs, n, v) ==
    [segs EXCEPT ![SegmentOf(vec, n)][MaskBits(n) + 1] = v]

\* push_back(data): auto idx = m_size.fetch_add(1); reserve(idx + 1) begins
TablePushBackData(t) ==
    /\ ~tfault
    /\ tt[t].pc = "idle"
    /\ TableCalls < MaxTableCalls
    /\ LET fa == fetch_add(m_size, 1)
       IN  /\ m_size' = fa.new
           /\ tt' = [tt EXCEPT ![t] = [@ EXCEPT !.pc = "cap_test", !.op = "push_back_data",
                                                !.idx = fa.old, !.r = fa.old + 1]]
    /\ UNCHANGED <<m_seg_vector, m_num_segments, m_mutex, segments, tfault, tcalls>>
    /\ UNCHANGED outsideTable

\* push_back(data), after reserve returned true: auto ptr = tuple_ptr(idx);
\* the data is copied over the components; return idx
TablePushBackWrite(t) ==
    /\ ~tfault
    /\ tt[t].pc = "pb_write"
    /\ LET idx == tt[t].idx
       IN  IF RowHasSegment(m_seg_vector, idx)
           THEN /\ segments' = SegmentsWrite(m_seg_vector, segments, idx, RowValue(idx))
                /\ tt' = [tt EXCEPT ![t] = TableThreadIdle(tt[t].m_reuse_segments)]
                /\ tcalls' = TableReturned(t)
                /\ tl' = RowCall("push_back", <<idx>>, "true")
                /\ UNCHANGED tfault
           ELSE /\ tfault' = TRUE
                /\ tl' = RowCall("push_back", <<idx>>, "fault")
                /\ UNCHANGED <<segments, tt, tcalls>>
    /\ UNCHANGED <<m_seg_vector, m_num_segments, m_size, m_mutex>>
    /\ UNCHANGED outsideRows

\* update<I>(n, data): if (n >= m_size) return false;
\* *component_ptr<I>(n) = data; return true
TableUpdateRow(n, data) ==
    /\ ~tfault
    /\ TableIdle
    /\ tl.n < MaxRowCalls
    /\ IF n >= m_size
       THEN /\ tl' = RowCall("update", <<n>>, "false")
            /\ UNCHANGED <<segments, tfault>>
       ELSE IF RowHasSegment(m_seg_vector, n)
            THEN /\ segments' = SegmentsWrite(m_seg_vector, segments, n, data)
                 /\ tl' = RowCall("update", <<n>>, "true")
                 /\ UNCHANGED tfault
            ELSE /\ tfault' = TRUE
                 /\ tl' = RowCall("update", <<n>>, "fault")
                 /\ UNCHANGED segments
    /\ UNCHANGED <<m_seg_vector, m_num_segments, m_size, m_mutex, tt, tcalls>>
    /\ UNCHANGED outsideRows

\* move(idst, isrc): if (idst >= m_size || isrc >= m_size) return false;
\* *dst = std::move(*src) for every component; return true
TableMove(idst, isrc) ==
    /\ ~tfault
    /\ TableIdle
    /\ tl.n < MaxRowCalls
    /\ IF idst >= m_size \/ isrc >= m_size
       THEN /\ tl' = RowCall("move", <<idst, isrc>>, "false")
            /\ UNCHANGED <<segments, tfault>>
       ELSE IF RowHasSegment(m_seg_vector, isrc) /\ RowHasSegment(m_seg_vector, idst)
            THEN /\ segments' = SegmentsWrite(m_seg_vector, segments, idst,
                                              SegmentsRead(m_seg_vector, segments, isrc))
                 /\ tl' = RowCall("move", <<idst, isrc>>, "true")
                 /\ UNCHANGED tfault
            ELSE /\ tfault' = TRUE
                 /\ tl' = RowCall("move", <<idst, isrc>>, "fault")
                 /\ UNCHANGED segments
    /\ UNCHANGED <<m_seg_vector, m_num_segments, m_size, m_mutex, tt, tcalls>>
    /\ UNCHANGED outsideRows

\* swap(idst, isrc): if (idst >= m_size || isrc >= m_size) return false;
\* std::swap(*dst, *src) for every component; return true
TableSwap(idst, isrc) ==
    /\ ~tfault
    /\ TableIdle
    /\ tl.n < MaxRowCalls
    /\ IF idst >= m_size \/ isrc >= m_size
       THEN /\ tl' = RowCall("swap", <<idst, isrc>>, "false")
            /\ UNCHANGED <<segments, tfault>>
       ELSE IF RowHasSegment(m_seg_vector, isrc) /\ RowHasSegment(m_seg_vector, idst)
            THEN /\ LET dst == SegmentsRead(m_seg_vector, segments, idst)
                        src == SegmentsRead(m_seg_vector, segments, isrc)
                    IN  segments' = SegmentsWrite(m_seg_vector,
                                        SegmentsWrite(m_seg_vector, segments, idst, src),
                                        isrc, dst)
                 /\ tl' = RowCall("swap", <<idst, isrc>>, "true")
                 /\ UNCHANGED tfault
            ELSE /\ tfault' = TRUE
                 /\ tl' = RowCall("swap", <<idst, isrc>>, "fault")
                 /\ UNCHANGED segments
    /\ UNCHANGED <<m_seg_vector, m_num_segments, m_size, m_mutex, tt, tcalls>>
    /\ UNCHANGED outsideRows

\* pop_back(): m_size--, called on a table that has a row
TablePopBack ==
    /\ ~tfault
    /\ TableIdle
    /\ tl.n < MaxRowCalls
    /\ m_size > 0
    /\ m_size' = m_size - 1
    /\ tl' = RowCall("pop_back", <<>>, "void")
    /\ UNCHANGED <<m_seg_vector, m_num_segments, m_mutex, segments, tt, tfault, tcalls>>
    /\ UNCHANGED outsideRows

\* clear(): m_size = 0
TableClear ==
    /\ ~tfault
    /\ TableIdle
    /\ tl.n < MaxRowCalls
    /\ m_size' = 0
    /\ tl' = RowCall("clear", <<>>, "void")
    /\ UNCHANGED <<m_seg_vector, m_num_segments, m_mutex, segments, tt, tfault, tcalls>>
    /\ UNCHANGED outsideRows

\* a default constructed table
InitTable ==
    /\ m_seg_vector = NullSegVector
    /\ m_num_segments = 0
    /\ m_size = 0
    /\ m_mutex = [writer |-> 0, readers |-> {}]
    /\ segments = <<>>
    /\ tt = [t \in Threads |-> TableThreadIdle(<<>>)]
    /\ tfault = FALSE
    /\ tcalls = [n |-> 0, pushed |-> [i \in 0..MaxTableCalls |-> 0], regrown |-> FALSE]

(***************************************************************************)
(* Migration of an entity between two archetypes in parallel mode: the     *)
(* registry locks both archetypes through Archetype::GetMutex, calls       *)
(* Archetype::Move of the target, adds the values of the new components    *)
(* and releases the locks.                                                 *)
(***************************************************************************)
MigrateIdle == [pc |-> "idle", S |-> 0, T |-> 0, h |-> 0]

\* no thread is inside a migration
NoThreadMigrates == \A t \in Threads : mig[t].pc = "idle"

\* no entity has been moved between archetypes yet
NothingMoved == \A a \in Archetypes : archs[a].m_changeCounter = 0

\* the change counter of archetype a once the migrations that began and have
\* not called Move yet have called it: Move adds one to the counter of its
\* target and, with the Erase2 it calls, two to the counter of its source
CounterAfterMoves(a, S, T) ==
    LET Waiting == {u \in Threads : mig[u].pc \in {"lock1", "lock2", "move"}}
        add(x, y) == (IF x = a THEN 2 ELSE 0) + (IF y = a THEN 1 ELSE 0)
        RECURSIVE sum(_)
        sum(W) == IF W = {} THEN 0
                  ELSE LET u == CHOOSE v \in W : TRUE
                       IN  add(mig[u].S, mig[u].T) + sum(W \ {u})
    IN  archs[a].m_changeCounter + sum(Waiting) + add(S, T)

\* the two mutexes in the order of their acquisition, source first
LockOrder_SourceFirst(S, T) == <<S, T>>

\* the two mutexes in the order of their acquisition: by the identity of the archetypes
LockOrder(S, T) == IF S < T THEN <<S, T>> ELSE <<T, S>>

\* a thread starts to migrate entity h from its archetype S to archetype T
MigrateBegin(t, h, T) ==
    /\ mig[t].pc = "idle"
    /\ m_slotMap[h] # NoSlot
    /\ \A u \in Threads : mig[u].pc # "idle" => mig[u].h # h
    /\ LET S == m_slotMap[h].m_archetypePtr
       IN  /\ S # T
           /\ Constructed(S) /\ Constructed(T)
           /\ \A a \in Archetypes : CounterAfterMoves(a, S, T) <= MaxChangeCounter
           /\ mig' = [mig EXCEPT ![t] = [@ EXCEPT !.pc = "lock1", !.S = S, !.T = T, !.h = h]]
    /\ UNCHANGED <<arch_mutex, archVars>>
    /\ UNCHANGED outsideMigrate

\* lock() of the first mutex: blocks while another thread holds it
MigrateLockFirst(t) ==
    /\ mig[t].pc = "lock1"
    /\ LET a == LockOrder(mig[t].S, mig[t].T)[1]
       IN  /\ arch_mutex[a] = 0
           /\ arch_mutex' = [arch_mutex EXCEPT ![a] = t]
    /\ mig' = [mig EXCEPT ![t].pc = "lock2"]
    /\ UNCHANGED archVars
    /\ UNCHANGED outsideMigrate

\* lock() of the second mutex
MigrateLockSecond(t) ==
    /\ mig[t].pc = "lock2"
    /\ LET a == LockOrder(mig[t].S, mig[t].T)[2]
       IN  /\ arch_mutex[a] = 0
           /\ arch_mutex' = [arch_mutex EXCEPT ![a] = t]
    /\ mig' = [mig EXCEPT ![t].pc = "move"]
    /\ UNCHANGED archVars
    /\ UNCHANGED outsideMigrate

\* T.Move(types of S, row of h, S, slot map), and the slot-map entry of h
MigrateMove(t, lastTi) ==
    /\ mig[t].pc = "move"
    /\ LET a == mig[t].T
           other == mig[t].S
           h == mig[t].h
           other_index == m_slotMap[h].m_archIndex
           types == archs[other].m_types
           m == ArchetypeMove(archs[a], types, other_index, archs[other], lastTi)
           missing == (DOMAIN archs[a].m_maps) \ types
       IN  /\ lastTi \in DOMAIN archs[other].m_maps
           /\ archs' = [archs EXCEPT ![a] = m.target, ![other] = m.other]
           /\ m_slotMap' = [SlotMapReindex(m_slotMap, m.lastHandle, other_index) EXCEPT
                              ![h] = [m_archetypePtr |-> a, m_archIndex |-> m.ret]]
           /\ pending' = [a |-> a, h |-> h, missing |-> missing]
           /\ archLast' = ArchRet("Move", a, other, types, other_index, m.ret, h)
           /\ mig' = [mig EXCEPT ![t].pc = IF missing = {} THEN "unlock" ELSE "add"]
    /\ UNCHANGED <<nents, arch_mutex>>
    /\ UNCHANGED outsideMigrate

\* the value of one component the source archetype did not have
MigrateAddValue(t, ti) ==
    /\ mig[t].pc = "add"
    /\ ti \in pending.missing
    /\ archs' = [archs EXCEPT ![pending.a] =
                    ArchetypeAddValue(@, ti, ArchValue(pending.h, ti))]
    /\ pending' = IF pending.missing = {ti} THEN NoPending
                  ELSE [pending EXCEPT !.missing = @ \ {ti}]
    /\ archLast' = ArchRet("AddValue", pending.a, pending.a, {ti}, 0, 0, pending.h)
    /\ mig' = [mig EXCEPT ![t].pc = IF pending.missing = {ti} THEN "unlock" ELSE "add"]
    /\ UNCHANGED <<m_slotMap, nents, arch_mutex>>
    /\ UNCHANGED outsideMigrate

\* the locks are released at the end of the operation
MigrateUnlock(t) ==
    /\ mig[t].pc = "unlock"
    /\ arch_mutex' = [a \in Archetypes |-> IF arch_mutex[a] = t THEN 0 ELSE arch_mutex[a]]
    /\ mig' = [mig EXCEPT ![t].pc = "idle"]
    /\ UNCHANGED archVars
    /\ UNCHANGED outsideMigrate

\* the steps of a thread inside a migration
MigrateRun(t) ==
    \/ MigrateLockFirst(t)
    \/ MigrateLockSecond(t)
    \/ \E lastTi \in ArchComponentTypes \cup {TypeHandle} : MigrateMove(t, lastTi)
    \/ \E ti \in ArchComponentTypes : MigrateAddValue(t, ti)
    \/ MigrateUnlock(t)

InitMigrate ==
    /\ arch_mutex = [a \in Archetypes |-> 0]
    /\ mig = [t \in Threads |-> MigrateIdle]

(***************************************************************************)
(* VecsIterator::operator+= and operator+                                  *)
(***************************************************************************)
\* the largest N a caller skips ahead by
MaxSkip == 3

SkipIdle == [pc |-> "idle", Cs |-> {}, it |-> <<>>, N |-> 0, res |-> <<>>, steps |-> <<>>]

\* the while loop of operator+=. left is a size_t: it is kept as the integer that
\* is congruent to it modulo 2^64 and nearest to 0, so left > 0 is left # 0
RECURSIVE IteratorAddAssignLoop(_, _, _, _)
IteratorAddAssignLoop(handles, Cs, it, left) ==
    IF left = 0 THEN it
    ELSE LET cur == it.m_current_iterator
             num == Max(Len(handles[IteratorType(Cs, it)]) - At(it.m_dispatch, cur), 0)
             it1 == [it EXCEPT !.m_dispatch[cur + 1] = @ + num]
         IN  IF IteratorIsVectorEnd(handles, Cs, it1)
             THEN IF cur < Len(it.m_dispatch) - 1
                  THEN IteratorAddAssignLoop(handles, Cs,
                                             [it1 EXCEPT !.m_current_iterator = cur + 1],
                                             left - num)
                  ELSE it1
             ELSE IteratorAddAssignLoop(handles, Cs, it1, left - num)

\* VecsIterator::operator+=(N)
IteratorAddAssign(handles, Cs, it, N) == IteratorAddAssignLoop(handles, Cs, it, N)

\* operator++ applied N times, stopping at the end position
RECURSIVE IteratorIncTimes(_, _, _, _)
IteratorIncTimes(handles, Cs, it, N) ==
    IF N = 0 \/ IteratorEq(it, IteratorNew(handles, Cs, TRUE)) THEN it
    ELSE IteratorIncTimes(handles, Cs, IteratorInc(handles, Cs, it), N - 1)

\* VecsIterator<Cs...> it;
SkipBegin(Cs) ==
    /\ ~fault
    /\ sk.pc = "idle"
    /\ sk' = [SkipIdle EXCEPT !.pc = "at", !.Cs = Cs, !.it = IteratorNew(m_handles, Cs, FALSE)]
    /\ UNCHANGED outsideSkip

\* ++it, before the end position
SkipInc ==
    /\ sk.pc = "at"
    /\ ~IteratorEq(sk.it, IteratorNew(m_handles, sk.Cs, TRUE))
    /\ sk' = [sk EXCEPT !.it = IteratorInc(m_handles, sk.Cs, @)]
    /\ UNCHANGED outsideSkip

\* it += N; steps is where N calls of ++it lead from the same position
SkipAdd(N) ==
    /\ sk.pc = "at"
    /\ sk' = [sk EXCEPT !.pc = "added", !.N = N,
                        !.res = IteratorAddAssign(m_handles, sk.Cs, sk.it, N),
                        !.steps = IteratorIncTimes(m_handles, sk.Cs, sk.it, N)]
    /\ UNCHANGED outsideSkip

\* the iterator goes out of scope
SkipEnd ==
    /\ sk.pc = "added"
    /\ sk' = SkipIdle
    /\ UNCHANGED outsideSkip

(***************************************************************************)
(* split(N) of a range over the tables of the entity types that have Cs    *)
(***************************************************************************)
\* the largest N split is called with
MaxSplit == 3

NoSplit == [Cs |-> {}, N |-> 0, ranges |-> <<>>]

Min(a, b) == IF a <= b THEN a ELSE b

\* rows of a sub-range for which the total is divided by N, rounded down
SplitChunk_RoundedDown(total, N) == total \div N

\* rows of a sub-range: the total entity count divided by N, rounded up
SplitChunk(total, N) == (total + N - 1) \div N

\* the rows before table i of the view, in the order of iteration
RowsBefore(handles, types, i) == SumOfSizes(handles, SubSeq(types, 1, i - 1))

\* the (table, start_row, end_row) triples of the rows b .. e-1 of the view
SubRange(handles, types, b, e) ==
    { tr \in { [table |-> types[i],
                start_row |-> Max(b - RowsBefore(handles, types, i), 0),
                end_row |-> Min(e - RowsBefore(handles, types, i), Len(handles[types[i]]))]
               : i \in 1..Len(types) } : tr.start_row < tr.end_row }

\* split(N): up to N contiguous sub-ranges, none of them empty
RangeSplit(handles, Cs, N) ==
    LET types == entity_types(Cs)
        total == SumOfSizes(handles, types)
        chunk == SplitChunk(total, N)
        all == [k \in 1..N |-> SubRange(handles, types, (k - 1) * chunk,
                                        Min(k * chunk, total))]
    IN  SelectSeq(all, LAMBDA r : r # {})

\* the handles of the rows of a sub-range
RangeEntities(handles, r) ==
    UNION { { At(handles[tr.table], row) : row \in tr.start_row..(tr.end_row - 1) } : tr \in r }

\* VecsRange<Cs...>{}.split(N)
split(Cs, N) ==
    /\ ~fault
    /\ sp' = [Cs |-> Cs, N |-> N, ranges |-> RangeSplit(m_handles, Cs, N)]
    /\ UNCHANGED outsideSplit

(***************************************************************************)
(* VecsEntity<E>: a local copy of an entity                                *)
(***************************************************************************)
\* calls of local_update on one VecsEntity
MaxLocalUpdates == 1

NoEntity == [pc |-> "none", m_handle |-> NullHandle, m_component_data |-> <<>>, n |-> 0]

\* the value the n-th local_update sets component C to
LocalValue(n, C) == Fresh(-(n + 1), C)

\* VecsComponentTable<E>::values(index)
ComponentTableValues(comps, E, index) == [C \in ComponentsOf(E) |-> At(comps[C], index)]

\* auto data = handle.entity<E>().value();
EntityCopy(handle) ==
    /\ ~fault
    /\ ve.pc = "none"
    /\ contains(handle)
    /\ LET E == handle.m_type_index
           index == RowOfHandle(m_entity_table, handle)
       IN  /\ \A C \in ComponentsOf(E) : index < Len(m_components[E][C])
           /\ ve' = [pc |-> "copy", m_handle |-> handle,
                     m_component_data |-> ComponentTableValues(m_components[E], E, index),
                     n |-> 0]
    /\ UNCHANGED regVars
    /\ UNCHANGED outsideEntity

\* data.local_update(C{...})
EntityLocalUpdate(C) ==
    /\ ~fault
    /\ ve.pc \in {"copy", "local"}
    /\ ve.n < MaxLocalUpdates
    /\ C \in ComponentsOf(ve.m_handle.m_type_index)
    /\ ve' = [ve EXCEPT !.pc = "local", !.n = @ + 1,
                        !.m_component_data[C] = LocalValue(ve.n, C)]
    /\ UNCHANGED regVars
    /\ UNCHANGED outsideEntity

\* data.update() -> VecsHandle::update(ent) -> VecsRegistry<E>::update(handle, ent)
EntityUpdate ==
    /\ ~fault
    /\ ve.pc \in {"copy", "local"}
    /\ LET handle == ve.m_handle
           E == handle.m_type_index
           index == RowOfUpdate(m_entity_table, handle)
       IN  IF ~contains(handle)
           THEN /\ ve' = [ve EXCEPT !.pc = "rejected"]
                /\ ret' = Ret("update", handle, FALSE, ve.m_component_data)
                /\ UNCHANGED <<m_components, fault>>
           ELSE IF \A C \in ComponentsOf(E) : index < Len(m_components[E][C])
           THEN /\ m_components' = [m_components EXCEPT
                       ![E] = ComponentTableUpdate(@, E, index, ve.m_component_data)]
                /\ ve' = [ve EXCEPT !.pc = "updated"]
                /\ ret' = Ret("update", handle, TRUE, ve.m_component_data)
                /\ UNCHANGED fault
           ELSE \* the row is past the end of the component vectors: the write goes to
                \* memory that is no element of them, or the process stops
                \/ /\ ve' = [ve EXCEPT !.pc = "updated"]
                   /\ ret' = Ret("update", handle, TRUE, ve.m_component_data)
                   /\ UNCHANGED <<m_components, fault>>
                \/ /\ fault' = TRUE
                   /\ UNCHANGED <<m_components, ret, ve>>
    /\ UNCHANGED <<m_entity_table, m_first_free, m_handles, ents, nupd>>
    /\ UNCHANGED outsideEntity

\* the VecsEntity goes out of scope
EntityDrop ==
    /\ ve.pc \in {"updated", "rejected"}
    /\ ve' = NoEntity
    /\ UNCHANGED regVars
    /\ UNCHANGED outsideEntity

\* the registry after the static initialisation of its members
InitRegistry ==
    /\ m_entity_table = <<>>
    /\ m_first_free = INDEX_NULL
    /\ m_handles = [E \in EntityTypes |-> <<>>]
    /\ m_components = [E \in EntityTypes |-> [C \in ComponentsOf(E) |-> <<>>]]
    /\ ents = <<>>
    /\ ret = Ret("none", NullHandle, FALSE, <<>>)
    /\ fault = FALSE
    /\ nupd = 0
    /\ fe = FeIdle
    /\ thr = [t \in Threads |-> ThreadIdle]
    /\ InitTable
    /\ InitMigrate
    /\ sk = SkipIdle
    /\ sp = NoSplit
    /\ ve = NoEntity
    /\ tl = NoRowCall

\* default constructed archetypes and an empty slot map
InitArchetypes ==
    /\ archs = [a \in Archetypes |-> DefaultArchetype]
    /\ m_slotMap = [h \in 1..MaxEntities |-> NoSlot]
    /\ pending = NoPending
    /\ archLast = ArchRet("none", 0, 0, {}, 0, 0, 0)
    /\ nents = 0
    /\ mv = MoveIdle

\* a slot that was never erased
InitGeneration ==
    /\ slot_generation = 0
    /\ nerase = 0

\* no vector of hashes
InitNoHash ==
    /\ hashes = <<>>
    /\ hash_arg = <<>>
    /\ hash_ret = NoHash

Init ==
    /\ InitRegistry
    /\ InitArchetypes
    /\ InitGeneration
    /\ InitNoHash

\* a slot that has been erased some number of times
InitGen ==
    /\ InitRegistry
    /\ InitArchetypes
    /\ slot_generation \in GenerationsAtStart
    /\ nerase = 0
    /\ InitNoHash

\* a vector of type hashes, filled in some order
InitHash ==
    /\ InitRegistry
    /\ InitArchetypes
    /\ InitGeneration
    /\ hash_arg \in VectorsUpTo(MaxHashLen)
    /\ hashes = hash_arg
    /\ hash_ret = NoHash

\* The registry is called with the handles insert has returned, live or not.
Next ==
    \/ \E E \in EntityTypes : insert(E)
    \/ \E handle \in Issued : erase(handle)
    \/ \E handle \in Issued : \E C \in ComponentTypes : updateC(handle, C)
    \/ \E handle \in Issued : updateRejected(handle)
    \/ \E handle \in Issued : updateInRange(handle)
    \/ \E handle \in Issued : updateOutOfRange(handle)

vars == <<m_entity_table, m_first_free, m_handles, m_components, ents, ret, fault, nupd, fe,
          archs, m_slotMap, pending, archLast, nents, slot_generation, nerase,
          hashes, hash_arg, hash_ret, mv, thr,
          m_seg_vector, m_num_segments, m_size, m_mutex, segments, tt, tfault, tcalls,
          arch_mutex, mig, sk, sp, ve, tl>>

Spec == Init /\ [][Next]_vars

\* for_each between calls of insert and erase; its callback reads the row it is
\* given and does not call the registry
NextIter ==
    \/ \E E \in EntityTypes : fe.pc # "callback" /\ insert(E)
    \/ \E handle \in Issued : fe.pc # "callback" /\ erase(handle)
    \/ \E Cs \in ViewTypes : ForEachBegin(Cs)
    \/ ForEachEnd
    \/ ForEachCall
    \/ ForEachReturn
    \/ ForEachSkip

SpecIter == Init /\ [][NextIter]_vars

\* for_each that runs from begin() to end() without a call of the registry in
\* between; entities are inserted and erased while no for_each runs
NextIterRun ==
    \/ \E E \in EntityTypes : fe.pc \in {"idle", "done"} /\ insert(E)
    \/ \E handle \in Issued : fe.pc \in {"idle", "done"} /\ erase(handle)
    \/ \E Cs \in ViewTypes : ForEachBegin(Cs)
    \/ ForEachEnd
    \/ ForEachCall
    \/ ForEachReturn
    \/ ForEachSkip

\* the steps of the loop of for_each
ForEachRun == ForEachEnd \/ ForEachCall \/ ForEachReturn \/ ForEachSkip

\* a for_each that was called keeps running: its loop and its callback are code
\* of the one thread that called it
SpecIterRun == Init /\ [][NextIterRun]_vars /\ WF_vars(ForEachRun)

\* for_each whose callback calls insert and erase of the registry
NextIterMut ==
    \/ \E E \in EntityTypes : insert(E)
    \/ \E handle \in Issued : erase(handle)
    \/ \E Cs \in ViewTypes : ForEachBegin(Cs)
    \/ ForEachEnd
    \/ ForEachCall
    \/ ForEachReturn
    \/ ForEachSkip

SpecIterMut == Init /\ [][NextIterMut]_vars

\* two threads call insert at the same time; between their calls entities are
\* erased
NextInsertRace ==
    \/ \E t \in Threads : \E E \in EntityTypes : ThreadInsertBegin(t, E)
    \/ \E t \in Threads : ThreadInsertAlloc(t)
    \/ \E t \in Threads : ThreadInsertTable(t)
    \/ \E t \in Threads : ThreadInsertReturn(t)
    \/ \E handle \in Issued : AllIdle /\ contains(handle) /\ erase(handle)

SpecInsertRace == Init /\ [][NextInsertRace]_vars

\* two threads call erase at the same time; between their calls entities are
\* inserted
NextEraseRace ==
    \/ \E E \in EntityTypes : AllIdle /\ insert(E)
    \/ \E t \in Threads : \E handle \in Issued : ThreadEraseBegin(t, handle)
    \/ \E t \in Threads : ThreadEraseTable(t)
    \/ \E t \in Threads : ThreadEraseGeneration(t)
    \/ \E t \in Threads : ThreadEraseReturn(t)

SpecEraseRace == Init /\ [][NextEraseRace]_vars

\* the calls of a VecsTable by two threads
NextTable ==
    \/ \E t \in Threads : TablePushBackBegin(t)
    \/ \E t \in Threads : \E r \in ReserveSizes : TableReserveBegin(t, "reserve", r)
    \/ \E t \in Threads : \E r \in CapacitySizes : TableReserveBegin(t, "capacity", r)
    \/ \E t \in Threads : TableCapacityTest(t)
    \/ \E t \in Threads : TableCapacityLock(t)
    \/ \E t \in Threads : TableCapacityGrow(t)
    \/ \E t \in Threads : TableReserveLock(t)
    \/ \E t \in Threads : TableReserveLoad(t)
    \/ \E t \in Threads : TableReserveSegment(t)
    \/ \E t \in Threads : TableReserveExchange(t)
    \/ \E t \in Threads : TableReserveReturn(t)
    \/ \E n \in 0..(MaxTableCalls - 1) : TableUpdate(n)

SpecTable == Init /\ [][NextTable]_vars

\* A caller that only inserts and erases entities
NextSlots ==
    \/ \E E \in EntityTypes : insert(E)
    \/ \E handle \in Issued : erase(handle)

SpecSlots == Init /\ [][NextSlots]_vars

\* One caller of a table: push_back() and push_back(data) statement by
\* statement, and the calls that name rows
TableCaller == CHOOSE t \in Threads : TRUE

NextRows ==
    \/ TablePushBackBegin(TableCaller)
    \/ TablePushBackData(TableCaller)
    \/ TableCapacityTest(TableCaller)
    \/ TableCapacityLock(TableCaller)
    \/ TableCapacityGrow(TableCaller)
    \/ TableReserveLock(TableCaller)
    \/ TableReserveLoad(TableCaller)
    \/ TableReserveSegment(TableCaller)
    \/ TableReserveExchange(TableCaller)
    \/ TableReserveReturn(TableCaller)
    \/ TablePushBackWrite(TableCaller)
    \/ \E n \in 0..MaxTableCalls : \E data \in RowData : TableUpdateRow(n, data)
    \/ \E idst, isrc \in 0..MaxTableCalls : TableMove(idst, isrc)
    \/ \E idst, isrc \in 0..MaxTableCalls : TableSwap(idst, isrc)
    \/ TablePopBack
    \/ TableClear

SpecRows == Init /\ [][NextRows]_vars

\* Two threads that migrate entities between the archetypes; the archetypes are
\* filled while no thread migrates
NextMigrate ==
    \/ \E a \in Archetypes : \E Ts \in ArchetypeTypeLists :
          NoThreadMigrates /\ NothingMoved /\ ArchNew(a, Ts)
    \/ \E a \in Archetypes :
          NoThreadMigrates /\ NothingMoved /\ ArchInsert(a)
    \/ \E t \in Threads : \E h \in 1..MaxEntities : \E T \in Archetypes : MigrateBegin(t, h, T)
    \/ \E t \in Threads : MigrateLockFirst(t)
    \/ \E t \in Threads : MigrateLockSecond(t)
    \/ \E t \in Threads : \E lastTi \in ArchComponentTypes \cup {TypeHandle} :
          MigrateMove(t, lastTi)
    \/ \E t \in Threads : \E ti \in ArchComponentTypes : MigrateAddValue(t, ti)
    \/ \E t \in Threads : MigrateUnlock(t)

\* a thread inside a migration keeps running, and lock() of a mutex that stays free
\* returns
SpecMigrate == Init /\ [][NextMigrate]_vars /\ \A t \in Threads : WF_vars(MigrateRun(t))

\* A caller that steps an iterator over the tables and skips ahead with it
NextSkip ==
    \/ \E E \in EntityTypes : sk.pc = "idle" /\ insert(E)
    \/ \E handle \in Issued : sk.pc = "idle" /\ erase(handle)
    \/ \E Cs \in ViewTypes : SkipBegin(Cs)
    \/ SkipInc
    \/ \E N \in 0..MaxSkip : SkipAdd(N)
    \/ SkipEnd

SpecSkip == Init /\ [][NextSkip]_vars

\* A caller that fills the tables of the registry and then splits ranges over them
NextSplit ==
    \/ \E E \in EntityTypes : sp = NoSplit /\ insert(E)
    \/ \E handle \in Issued : sp = NoSplit /\ erase(handle)
    \/ \E Cs \in ViewTypes : \E N \in 1..MaxSplit : split(Cs, N)

SpecSplit == Init /\ [][NextSplit]_vars

\* A caller that takes local copies of entities, changes them and stores them
NextEntity ==
    \/ \E E \in EntityTypes : ve.pc = "none" /\ insert(E)
    \/ \E handle \in Issued : erase(handle)
    \/ \E handle \in Issued : EntityCopy(handle)
    \/ \E C \in ComponentTypes : EntityLocalUpdate(C)
    \/ EntityUpdate
    \/ EntityDrop

SpecEntity == Init /\ [][NextEntity]_vars

\* The public operations of the archetypes, AddType among them; Move is called
\* with types the source has columns for and completed by AddValue
NextTypes ==
    \/ \E a \in Archetypes : \E Ts \in ArchetypeTypeLists : ArchNew(a, Ts)
    \/ \E a \in Archetypes : ArchInsert(a)
    \/ \E a \in Archetypes : \E index \in 0..(MaxEntities - 1) : ArchErase(a, index, TypeHandle)
    \/ \E a, other \in Archetypes : \E types \in TypeSets :
          \E other_index \in 0..(MaxEntities - 1) :
             /\ Constructed(other)
             /\ types \subseteq DOMAIN archs[other].m_maps
             /\ ArchMove(a, types, other_index, other, TypeHandle)
    \/ \E ti \in ArchComponentTypes : ArchAddValue(ti)
    \/ \E a, other \in Archetypes : \E types \in TypeSets : ArchClone(a, other, types)
    \/ \E a \in Archetypes : \E ti \in ArchComponentTypes : ArchAddComponent(a, ti)
    \/ \E a \in Archetypes : \E ti \in ArchComponentTypes : ArchAddType(a, ti)
    \/ \E a \in Archetypes : ArchClear(a)

SpecTypes == Init /\ [][NextTypes]_vars

\* The calls of the archetypes, as a registry that owns them makes them
NextArch ==
    \/ \E a \in Archetypes : \E Ts \in ArchetypeTypeLists : ArchNew(a, Ts)
    \/ \E a \in Archetypes : ArchInsert(a)
    \/ \E a \in Archetypes : \E index \in 0..(MaxEntities - 1) :
          \E lastTi \in ArchComponentTypes \cup {TypeHandle} : ArchErase(a, index, lastTi)
    \/ \E a, other \in Archetypes : \E types \in TypeSets :
          \E other_index \in 0..(MaxEntities - 1) :
             \E lastTi \in ArchComponentTypes \cup {TypeHandle} :
                ArchMove(a, types, other_index, other, lastTi)
    \/ \E ti \in ArchComponentTypes : ArchAddValue(ti)
    \/ \E a, other \in Archetypes : \E types \in TypeSets : ArchClone(a, other, types)
    \/ \E a \in Archetypes : \E ti \in ArchComponentTypes : ArchAddComponent(a, ti)
    \/ \E a \in Archetypes : ArchClear(a)

SpecArch == Init /\ [][NextArch]_vars

\* the generation counter of a slot over its erases
NextGen == EraseGeneration

SpecGen == InitGen /\ [][NextGen]_vars

\* The calls of the archetypes that add, remove and reorder rows. No call is
\* made while a migration waits for values, so the columns of an archetype
\* have the same length and Erase2 finds it in whichever map it visits last.
NextCounter ==
    \/ \E a \in Archetypes : \E Ts \in ArchetypeTypeLists : ArchNew(a, Ts)
    \/ \E a \in Archetypes : ArchInsert(a)
    \/ \E a \in Archetypes : \E index \in 0..(MaxEntities - 1) :
          ArchErase(a, index, TypeHandle)
    \/ \E a, other \in Archetypes : \E types \in TypeSets :
          \E other_index \in 0..(MaxEntities - 1) :
             ArchMove(a, types, other_index, other, TypeHandle)
    \/ \E ti \in ArchComponentTypes : ArchAddValue(ti)
    \/ \E a \in Archetypes : \E h1 \in 1..MaxEntities : \E h2 \in h1..MaxEntities :
          ArchSwap(a, h1, h2)
    \/ \E a \in Archetypes : ArchClear(a)

SpecCounter == Init /\ [][NextCounter]_vars

\* Move running statement by statement between the calls that fill the
\* archetypes
NextMove ==
    \/ \E a \in Archetypes : \E Ts \in ArchetypeTypeLists : mv.pc = "idle" /\ ArchNew(a, Ts)
    \/ \E a \in Archetypes : mv.pc = "idle" /\ ArchInsert(a)
    \/ \E ti \in ArchComponentTypes : mv.pc = "idle" /\ ArchAddValue(ti)
    \/ \E a, other \in Archetypes : \E types \in TypeSets :
          \E other_index \in 0..(MaxEntities - 1) :
             \E lastTi \in ArchComponentTypes \cup {TypeHandle} :
                MoveBegin(a, types, other_index, other, lastTi)
    \/ \E ti \in ArchComponentTypes \cup {TypeHandle} : MoveCopy(ti)
    \/ MoveErase2
    \/ MoveReturn

SpecMove == Init /\ [][NextMove]_vars

\* one call of Hash
NextHash == HashCall

SpecHash == InitHash /\ [][NextHash]_vars

(***************************************************************************)
(* Properties of the registry of VECS.h                                    *)
(***************************************************************************)
\* C1: contains(h) is true if and only if h was returned by insert and has not
\* been passed to a successful erase since, for every handle value h.
C1_ContainsIffLive ==
    \A h \in Handles : contains(h) <=> Live(h)

\* ents[j] is the entity that took the slot of ents[i] when it was reused
PriorHolder(i, j) ==
    /\ i < j
    /\ ents[i].h.m_entity_index = ents[j].h.m_entity_index
    /\ \A k \in (i + 1)..(j - 1) : ents[k].h.m_entity_index # ents[i].h.m_entity_index

\* C2: no two live entities have equal handles; the handle insert returns for
\* a reused slot differs in its generation from the handle issued for that slot
\* before, and while the new entity lives, contains and component fail for the
\* old handle.
C2_HandlesUnique ==
    /\ \A i, j \in 1..Len(ents) :
          (i # j /\ ents[i].alive /\ ents[j].alive) => ents[i].h # ents[j].h
    /\ \A i, j \in 1..Len(ents) :
          PriorHolder(i, j) =>
             /\ ents[j].h # ents[i].h
             /\ ents[j].h.m_generation_counter # ents[i].h.m_generation_counter
             /\ ents[j].alive =>
                   /\ ~contains(ents[i].h)
                   /\ \A C \in ComponentTypes : component(ents[i].h, C) = Absent

\* a slot was reused and its second entity lives
C2_Witness ==
    \E i, j \in 1..Len(ents) :
       /\ i < j
       /\ ents[i].h.m_entity_index = ents[j].h.m_entity_index
       /\ ents[j].alive

\* C3: after update(h, v) on a live handle h succeeded, component<C>(h) returns
\* the value written, for every component written.
C3_UpdateRoundTrip ==
    (ret.op \in {"update", "updateC"} /\ ret.ok) =>
       \A C \in DOMAIN ret.data : component(ret.h, C) = Some(ret.data[C])

\* C4: a successful erase leaves every other live entity resolvable through
\* its handle, with the component values it had before the erase.
C4_EraseKeepsOthers ==
    [][ (ret'.op = "erase" /\ ret'.ok /\ ents' # ents) =>
          \A i \in 1..Len(ents') :
             ents'[i].alive =>
                /\ containsIn(m_entity_table', ents'[i].h)
                /\ \A C \in ComponentsOf(ents'[i].h.m_type_index) :
                      componentIn(m_entity_table', m_handles', m_components', ents'[i].h, C)
                         = component(ents'[i].h, C) ]_vars

\* C5: the slot of every live entity records a row of the table of its type
\* that holds its handle; every row of every table holds the handle of a live
\* entity of that type whose slot has the handle's generation and records that row.
C5_SlotRowAgreement ==
    /\ \A i \in 1..Len(ents) :
          ents[i].alive =>
             LET h == ents[i].h
                 r == RowOfHandle(m_entity_table, h)
             IN  /\ r < Len(m_handles[h.m_type_index])
                 /\ At(m_handles[h.m_type_index], r) = h
    /\ \A E \in EntityTypes : \A r \in 0..(Len(m_handles[E]) - 1) :
          LET h == At(m_handles[E], r)
          IN  /\ Live(h)
              /\ h.m_type_index = E
              /\ h.m_entity_index < Len(m_entity_table)
              /\ At(m_entity_table, h.m_entity_index).m_generation_counter
                    = h.m_generation_counter
              /\ RowOfHandle(m_entity_table, h) = r

\* an erase has moved a live entity into another row than the one it was
\* inserted at
C5_Witness ==
    \E i \in 1..Len(ents) :
       /\ ents[i].alive
       /\ RowOfHandle(m_entity_table, ents[i].h) # ents[i].row0

\* C9: erase and update on a handle that was erased before return false and
\* change neither the slots, the free list, the generations nor the tables.
C9_StaleCallsRejected ==
    [][ ( /\ ~fault'
          /\ ret'.op \in {"erase", "update", "updateC"}
          /\ ret'.h \in Issued
          /\ ~Live(ret'.h) ) =>
          ( /\ ret'.ok = FALSE
            /\ UNCHANGED <<m_entity_table, m_first_free, m_handles, m_components, ents>> ) ]_vars

\* erase was called on an erased handle whose slot holds a later entity
C9_Witness ==
    /\ ret.op = "erase"
    /\ ~ret.ok
    /\ ret.h \in Issued
    /\ \E i \in 1..Len(ents) :
          ents[i].alive /\ ents[i].h.m_entity_index = ret.h.m_entity_index

\* C10: component<C>(h) returns a value if and only if h is the handle of a
\* live entity whose type has the component C; otherwise it returns nothing.
C10_ReadsFailExplicitly ==
    \A h \in Handles : \A C \in ComponentTypes :
       (component(h, C) # Absent) <=> (Live(h) /\ C \in ComponentsOf(h.m_type_index))

(***************************************************************************)
(* Properties of for_each                                                  *)
(***************************************************************************)
\* C8: a for_each<Cs...> that ran to its end has called the callback exactly
\* once for every live entity whose type has all of Cs and for no other handle,
\* with the components that component<C>(h) returns.
C8_ViewComplete ==
    (fe.pc = "done" /\ ~fe.mutated) =>
       /\ \A k1, k2 \in 1..Len(fe.visited) :
             k1 # k2 => fe.visited[k1].h # fe.visited[k2].h
       /\ { fe.visited[k].h : k \in 1..Len(fe.visited) }
             = { h \in Issued : Live(h) /\ fe.Cs \subseteq ComponentsOf(h.m_type_index) }
       /\ \A k \in 1..Len(fe.visited) : \A C \in fe.Cs :
             Some(fe.visited[k].data[C]) = component(fe.visited[k].h, C)

\* a for_each over two tables, the first of them empty, has ended after at
\* least two calls of the callback
C8_Witness ==
    /\ fe.pc = "done"
    /\ Len(entity_types(fe.Cs)) = 2
    /\ Len(m_handles[0]) = 0
    /\ Len(fe.visited) >= 2

(***************************************************************************)
(* Properties of Archetype                                                 *)
(***************************************************************************)
\* C6: after a constructor, Insert, Erase, Move or Clear has returned, every
\* column of the archetypes of the call, the Handle column included, has the
\* length Size().
C6_ColumnsSameLength ==
    archLast.op \in {"Archetype", "Insert", "Erase", "Move", "Clear"} =>
       \A a \in {archLast.a, archLast.other} : \A ti \in DOMAIN archs[a].m_maps :
          Len(archs[a].m_maps[ti]) = ArchetypeSize(archs[a])

\* C7: Move(types, i, other) leaves, for every type of types the target has,
\* at the returned row of the target the value row i of the source had before
\* the call; Get through the handle of the moved entity returns for these types
\* what it returned before.
C7_MovePreservesValues ==
    [][ (archLast'.op = "Move" /\ archs' # archs) =>
          \A ti \in archLast'.types \cap DOMAIN archs[archLast'.a].m_maps :
             /\ At(archs'[archLast'.a].m_maps[ti], archLast'.ret)
                   = At(archs[archLast'.other].m_maps[ti], archLast'.index)
             /\ ti # TypeHandle =>
                   ArchGet(archs', m_slotMap', archLast'.h, ti)
                      = ArchGet(archs, m_slotMap, archLast'.h, ti) ]_vars

\* a Move has taken an entity with two components out of a row that was not
\* the last of its archetype, into an archetype that had entities already
C7_Witness ==
    /\ archLast.op = "Move"
    /\ {"A", TypeHandle} \subseteq archLast.types \cap DOMAIN archs[archLast.a].m_maps
    /\ archLast.index < ArchetypeSize(archs[archLast.other])
    /\ archLast.ret > 0

(***************************************************************************)
(* Properties of the generation counter and of the handles                 *)
(***************************************************************************)
\* C11: every erase increments the generation counter of the slot, and when
\* the increment overflows the counter wraps to a value that is not zero: no
\* slot has the generation zero after an erase.
C11_GenerationSkipsZero ==
    [][ (nerase' = nerase + 1) =>
          /\ slot_generation' # 0
          /\ slot_generation' # slot_generation
          /\ (slot_generation + 1 < COUNTER16_NULL) =>
                 slot_generation' = slot_generation + 1 ]_vars

\* the handle whose slot index, generation and type index are zero
ZeroHandle == VecsHandle(0, 0, 0)

\* C12: insert never returns the handle whose fields are all zero, and
\* contains and is_valid are false for it in every reachable state.
C12_ZeroHandleInvalid ==
    /\ ZeroHandle \notin Issued
    /\ ~contains(ZeroHandle)
    /\ ~is_valid(ZeroHandle)

\* VecsRegistry<>().size()
size == SumOfSizes(m_handles, <<0, 1>>)

\* number of entities that were inserted and not erased
LiveCount == Cardinality({ i \in 1..Len(ents) : ents[i].alive })

\* C13: size() is the number of live handles over all entity types, and an
\* erase does not change the values read through the handles that survive it.
C13_SizeCountsLive ==
    [][ /\ size' = LiveCount'
        /\ (ret'.op = "erase" /\ ret'.ok /\ ents' # ents) =>
              \A i \in 1..Len(ents') :
                 ents'[i].alive =>
                    \A C \in ComponentsOf(ents'[i].h.m_type_index) :
                       componentIn(m_entity_table', m_handles', m_components', ents'[i].h, C)
                          = component(ents'[i].h, C) ]_vars

(***************************************************************************)
(* Properties of Hash                                                      *)
(***************************************************************************)
\* C14: Hash does not depend on the order of a vector's elements: the value
\* returned for a vector is the value Hash returns for every permutation of
\* that vector.
C14_HashOrderIndependent ==
    hash_ret # NoHash =>
       \A w \in PermutationsOf(hash_arg) : Some(Hash(w)) = hash_ret

\* Hash was called with a vector of different hashes that was not sorted
C14_Witness ==
    /\ hash_ret # NoHash
    /\ Len(hash_arg) = MaxHashLen
    /\ \E i \in 1..(Len(hash_arg) - 1) : WordLess(hash_arg[i + 1], hash_arg[i])
    /\ hashes # hash_arg
    /\ hash_ret # Some(HashFold(<<0, 0, 0, 0>>, hash_arg, 1))

(***************************************************************************)
(* Properties of Archetype::Move, statement by statement                   *)
(***************************************************************************)
\* the column ti of archetype a holds the value of entity h
HoldsValue(a, ti, h) ==
    \E i \in 1..Len(archs[a].m_maps[ti]) :
       archs[a].m_maps[ti][i] = (IF ti = TypeHandle THEN h ELSE ArchValue(h, ti))

\* C15: while Move runs, every value of the migrating row that the target
\* takes is in the row of the source or already appended to the target, and
\* once the row is erased from the source all of them are the last elements
\* of the target's columns.
C15_MoveCopiesBeforeErase ==
    mv.pc # "idle" =>
       \A ti \in mv.types \cap DOMAIN archs[mv.a].m_maps :
          /\ HoldsValue(mv.other, ti, mv.h) \/ HoldsValue(mv.a, ti, mv.h)
          /\ mv.pc = "erased" =>
                /\ Len(archs[mv.a].m_maps[ti]) > 0
                /\ archs[mv.a].m_maps[ti][Len(archs[mv.a].m_maps[ti])]
                      = (IF ti = TypeHandle THEN mv.h ELSE ArchValue(mv.h, ti))

\* the row of a source with several rows has been erased after two values
\* were copied to the target
C15_Witness ==
    /\ mv.pc = "erased"
    /\ Cardinality(mv.types \cap DOMAIN archs[mv.a].m_maps) >= 2
    /\ ArchetypeSize(archs[mv.other]) >= 1
    /\ ~HoldsValue(mv.other, TypeHandle, mv.h)

(***************************************************************************)
(* Properties of the change counter                                        *)
(***************************************************************************)
\* the change counter of archetype a
ChangeCounter(as, a) == as[a].m_changeCounter

\* C16: the change counter of an archetype never decreases, and it is
\* strictly larger after each Erase, Clear and Swap of the archetype and,
\* for the source and the target, after each Move.
C16_ChangeCounterGrows ==
    [][ /\ \A a \in Archetypes : ChangeCounter(archs', a) >= ChangeCounter(archs, a)
        /\ archLast'.op \in {"Erase", "Clear", "Swap", "Move"} =>
              /\ ChangeCounter(archs', archLast'.a) > ChangeCounter(archs, archLast'.a)
              /\ ChangeCounter(archs', archLast'.other) > ChangeCounter(archs, archLast'.other)
      ]_vars

\* every archetype has been changed by Erase, Clear, Swap or Move, the last
\* call being a Swap, a Clear or a Move
C16_Witness ==
    /\ \A a \in Archetypes : ChangeCounter(archs, a) > 0
    /\ archLast.op \in {"Swap", "Clear", "Move"}
    /\ \E a \in Archetypes : ChangeCounter(archs, a) = MaxChangeCounter

\* the call was an Insert into archetype a whose columns were full: no
\* column of a can have held more elements than entities were created
InsertGrows(a) ==
    /\ archLast'.op = "Insert" /\ archLast'.a = a
    /\ nents' = nents + 1
    /\ \A t \in DOMAIN archs[a].m_maps : VectorIsFull(archs[a].m_maps[t], nents)

\* C17: an Insert that grows the capacity of the archetype's columns
\* increases the change counter of the archetype.
C17_InsertGrowthCounts ==
    [][ \A a \in Archetypes :
           InsertGrows(a) => ChangeCounter(archs', a) > ChangeCounter(archs, a) ]_vars

(***************************************************************************)
(* Properties of for_each whose callback changes the registry              *)
(***************************************************************************)
\* C18: an insert or erase made from the callback of for_each is rejected,
\* or the iteration detects it: after the callback has changed the registry,
\* for_each does not go on to call the callback for a further row.
C18_MutationEndsIteration ==
    [][ (fe.pc = "loop" /\ fe.mutated) => fe'.pc # "callback" ]_vars

(***************************************************************************)
(* Properties of insert and erase called by two threads                    *)
(***************************************************************************)
\* the slots of the free list are different slots, none of them the slot of
\* a live entity
FreeListConsistent ==
    /\ \A i, j \in 1..Len(FreeList) : i # j => FreeList[i] # FreeList[j]
    /\ \A i \in 1..Len(FreeList) : \A k \in 1..Len(ents) :
          ents[k].alive => ents[k].h.m_entity_index # FreeList[i]

\* C19: insert called by two threads at the same time gives the two entities
\* different slots and handles; when the calls have returned both handles are
\* contained, each slot refers to the row of its handle, and the free list is
\* consistent.
C19_ConcurrentInsert ==
    /\ \A i, j \in 1..Len(ents) :
          (i # j /\ ents[i].alive /\ ents[j].alive) =>
             /\ ents[i].h # ents[j].h
             /\ ents[i].h.m_entity_index # ents[j].h.m_entity_index
    /\ AllIdle =>
          /\ \A i \in 1..Len(ents) : ents[i].alive =>
                /\ contains(ents[i].h)
                /\ RowOfHandle(m_entity_table, ents[i].h) < Len(m_handles[ents[i].h.m_type_index])
                /\ At(m_handles[ents[i].h.m_type_index],
                      RowOfHandle(m_entity_table, ents[i].h)) = ents[i].h
          /\ FreeListConsistent

\* C20: erase called by two threads at the same time for the same live
\* handle returns true to only one of them; when the calls have returned the
\* slot is once on the free list and one row has been removed.
C20_ConcurrentErase ==
    /\ \A t, u \in Threads :
          (t # u /\ thr[t].last.op = "erase" /\ thr[t].last.ok /\ thr[u].last.ok) =>
             thr[t].last # thr[u].last
    /\ AllIdle => FreeListConsistent
    /\ AllIdle => size = LiveCount

(***************************************************************************)
(* Properties of VecsTable                                                 *)
(***************************************************************************)
RECURSIVE PushedUpTo(_)
\* number of calls of push_back that returned an index of at most n
PushedUpTo(n) == IF n < 0 THEN 0 ELSE tcalls.pushed[n] + PushedUpTo(n - 1)

CircularWait ==
    \E t, u \in Threads :
        /\ t # u
        /\ mig[t].pc = "lock2" /\ mig[u].pc = "lock2"
        /\ arch_mutex[LockOrder(mig[t].S, mig[t].T)[2]] = u
        /\ arch_mutex[LockOrder(mig[u].S, mig[u].T)[2]] = t

C24_SkipEqualsSteps ==
    sk.pc = "added" => IteratorEq(sk.res, sk.steps)


\* the handles a range over the entity types that have Cs iterates over
ViewEntities(Cs) ==
    UNION { { At(m_handles[E], row) : row \in 0..(Len(m_handles[E]) - 1) } :
            E \in { e \in EntityTypes : Cs \subseteq ComponentsOf(e) } }

\* the last call of split was made on the tables as they are
SplitIsCurrent == sp.N >= 1 /\ sp.ranges = RangeSplit(m_handles, sp.Cs, sp.N)

\* C23: for any N >= 1, split(N) of a range returns at most N sub-ranges that
\* partition it: every entity of the range lies in exactly one sub-range and the
\* sub-ranges hold no other entity.
C23_SplitPartitions ==
    SplitIsCurrent =>
        /\ Len(sp.ranges) <= sp.N
        /\ \A h \in ViewEntities(sp.Cs) :
              Cardinality({ k \in 1..Len(sp.ranges) :
                              h \in RangeEntities(m_handles, sp.ranges[k]) }) = 1
        /\ \A k \in 1..Len(sp.ranges) :
              RangeEntities(m_handles, sp.ranges[k]) \subseteq ViewEntities(sp.Cs)

\* a range over two tables, three entities in all, was split into two sub-ranges,
\* one of which spans both tables
C23_Witness ==
    /\ SplitIsCurrent
    /\ sp.Cs = {1} /\ sp.N = 2
    /\ Len(sp.ranges) = 2
    /\ Cardinality(ViewEntities(sp.Cs)) = 3
    /\ \E k \in 1..2 : Cardinality(sp.ranges[k]) = 2


\* C25: a VecsEntity is a local copy: local_update on it leaves what the registry
\* stores unchanged, and update() that succeeds stores the local values, so that
\* component<C>(h) then returns the local value of every component of the entity.
C25_LocalCopy ==
    [][ /\ (ve'.pc = "local" /\ ve'.n # ve.n) =>
              UNCHANGED <<m_entity_table, m_first_free, m_handles, m_components>>
        /\ (ve'.pc = "updated" /\ ve.pc # "updated") =>
              \A C \in ComponentsOf(ve.m_handle.m_type_index) :
                 componentIn(m_entity_table', m_handles', m_components', ve.m_handle, C)
                    = Some(ve.m_component_data[C]) ]_vars


\* a step of reserve or capacity that adds a segment or replaces the vector of
\* the segment pointers
TableGrows ==
    \/ m_seg_vector' # m_seg_vector
    \/ m_num_segments' # m_num_segments
    \/ Len(segments') # Len(segments)

\* C26: growing a VecsTable does not relocate live rows: when reserve or capacity
\* adds segments or replaces the vector of segment pointers by a larger one, every
\* segment in use stays at its segment index and the contents of every row
\* n < size() are unchanged.
C26_GrowthKeepsRows ==
    [][ TableGrows =>
          /\ \A i \in 1..Len(m_seg_vector.ptrs) :
                m_seg_vector.ptrs[i] # 0 =>
                   /\ i <= Len(m_seg_vector'.ptrs)
                   /\ m_seg_vector'.ptrs[i] = m_seg_vector.ptrs[i]
          /\ \A n \in 0..(m_size - 1) :
                RowHasSegment(m_seg_vector, n) =>
                   TableComponent(m_seg_vector', segments', n)
                      = TableComponent(m_seg_vector, segments, n) ]_vars

\* the vector of segment pointers was replaced by a larger one while a row held a
\* value, and the row still holds it
C26_Witness ==
    /\ tcalls.regrown
    /\ Len(m_seg_vector.ptrs) > MinSegments
    /\ HasWrittenRow


\* C27: in VecsComponentTable<E>, m_handles and every component vector have the
\* same length after any sequence of insert and erase, so the row index insert
\* returned addresses, in every component vector, the value inserted with it.
C27_VectorsSameLength ==
    /\ \A E \in EntityTypes : \A C \in ComponentsOf(E) :
          Len(m_components[E][C]) = Len(m_handles[E])
    /\ ret.op = "insert" =>
          LET E == ret.h.m_type_index
              index == RowOfHandle(m_entity_table, ret.h)
          IN  \A C \in ComponentsOf(E) :
                 /\ index < Len(m_components[E][C])
                 /\ At(m_components[E][C], index) = ret.data[C]


\* the slots of the slot table that hold no live entity
FreeSlots ==
    { i \in 0..(Len(m_entity_table) - 1) :
        \A k \in 1..Len(ents) : ents[k].alive => ents[k].h.m_entity_index # i }

\* C28: insert takes the slot at the head of the free list, which is the most
\* recently erased of the free slots, whenever a free slot exists, and appends a
\* slot to the slot table only when none exists: every erase puts its slot in
\* front of the free list, every insert with a free slot takes the head of the list
\* and leaves the length of the slot table alone.
C28_SlotAllocation ==
    [][ LET after == FreeListFrom(m_entity_table', m_first_free', Len(m_entity_table') + 1)
        IN  /\ Len(ents') = Len(ents) + 1 =>
                 LET idx == ents'[Len(ents')].h.m_entity_index
                 IN  IF FreeSlots # {}
                     THEN /\ FreeList # <<>>
                          /\ idx = Head(FreeList)
                          /\ after = Tail(FreeList)
                          /\ Len(m_entity_table') = Len(m_entity_table)
                     ELSE /\ idx = Len(m_entity_table)
                          /\ Len(m_entity_table') = Len(m_entity_table) + 1
                          /\ after = <<>>
            /\ (Len(ents') = Len(ents) /\ ents' # ents) =>
                 after = <<ret'.h.m_entity_index>> \o FreeList ]_vars

\* two slots were erased and insert has just taken the one erased last, the other
\* is still free
C28_Witness ==
    /\ ret.op = "insert"
    /\ ret.h.m_generation_counter = 1
    /\ Len(FreeList) = 1
    /\ Len(m_entity_table) = 2


C30_TypesAreColumns ==
    \A a \in Archetypes : archs[a].m_types = DOMAIN archs[a].m_maps


\* the call that was just made is update, move or swap
RowCallMade == tl' # tl /\ tl'.op \in {"update", "move", "swap"}

\* a row index the call was given is not below size()
RowOutOfRange == \E k \in 1..Len(tl'.args) : tl'.args[k] >= m_size

\* C31: update(n, data), move(idst, isrc) and swap(n1, n2) of a VecsTable
\* return false when a row index they are given is >= size(), and then every
\* row and size() are as before; they return true when every index is < size().
C31_RowCallsChecked ==
    [][RowCallMade =>
          /\ RowOutOfRange =>
                /\ tl'.ok = "false"
                /\ segments' = segments /\ m_seg_vector' = m_seg_vector
                /\ m_size' = m_size
          /\ ~RowOutOfRange => tl'.ok = "true"]_vars

\* the part of C31 about indices that are out of range
C31_OutOfRangeRejected ==
    [][RowCallMade /\ RowOutOfRange =>
          /\ tl'.ok = "false"
          /\ segments' = segments /\ m_seg_vector' = m_seg_vector
          /\ m_size' = m_size]_vars

\* a call with a row index out of range was rejected, and a call with indices
\* in range returned true
C31_Witness == tl.op = "swap" /\ tl.ok = "true" /\ tl.args[1] # tl.args[2]


\* C36: in every state reached by push_back, pop_back and clear of a VecsTable
\* every row index n < size() has an allocated segment (reserve(r) that returned
\* true left the segment pointers 0 .. (r-1) >> L non-null), and push_back(data)
\* never writes through a null segment pointer.
C36_RowsHaveSegments ==
    /\ TableIdle =>
          \A n \in 0..(m_size - 1) : RowHasSegment(m_seg_vector, n)
    /\ ~(tl.op = "push_back" /\ tl.ok = "fault")

\* the part of C36 about the rows of a table no call is working on
C36_IdleRowsHaveSegments ==
    TableIdle => \A n \in 0..(m_size - 1) : RowHasSegment(m_seg_vector, n)

\* the part of C36 about the write of push_back(data)
C36_PushBackWrites == ~(tl.op = "push_back" /\ tl.ok = "fault")


\* the call that was just made is an update of handle h that returned true
UpdateMade == nupd' # nupd /\ ret' # ret /\ ret'.op \in {"update", "updateC"} /\ ret'.ok

\* C32: update(h, v) on a live handle h writes only the row that the slot of h
\* records (m_next_free_or_comp_index): every other row of every component
\* table, and so the components of every other live entity, is as before.
C32_UpdateWritesOwnRow ==
    [][UpdateMade =>
          \A E \in EntityTypes : \A C \in ComponentsOf(E) :
             /\ Len(m_components'[E][C]) = Len(m_components[E][C])
             /\ \A row \in 0..(Len(m_components[E][C]) - 1) :
                   (E # ret'.h.m_type_index \/ row # RowOfHandle(m_entity_table, ret'.h)) =>
                      At(m_components'[E][C], row) = At(m_components[E][C], row)]_vars

\* the part of C32 about the single component path, updateC
C32_UpdateCWritesOwnRow ==
    [][UpdateMade /\ ret'.op = "updateC" =>
          \A E \in EntityTypes : \A C \in ComponentsOf(E) :
             /\ Len(m_components'[E][C]) = Len(m_components[E][C])
             /\ \A row \in 0..(Len(m_components[E][C]) - 1) :
                   (E # ret'.h.m_type_index \/ row # RowOfHandle(m_entity_table, ret'.h)) =>
                      At(m_components'[E][C], row) = At(m_components[E][C], row)]_vars


\* the slots of the slot table that hold a live entity
OccupiedSlots ==
    { i \in 0..(Len(m_entity_table) - 1) :
        \E k \in 1..Len(ents) : ents[k].alive /\ ents[k].h.m_entity_index = i }

\* C33: in every state reached by insert and erase, the chain from m_first_free
\* along m_next_free_or_comp_index is acyclic and ends at the null index, holds
\* every slot that is not occupied exactly once and no occupied slot, so the
\* occupied slots and the slots of the free list together are the slot table.
C33_FreeListIntegrity ==
    /\ FreeListEnd(m_entity_table, m_first_free, Len(m_entity_table) + 1) = INDEX_NULL
    /\ \A i, j \in 1..Len(FreeList) : i # j => FreeList[i] # FreeList[j]
    /\ { FreeList[i] : i \in 1..Len(FreeList) } = (0..(Len(m_entity_table) - 1)) \ OccupiedSlots
    /\ Cardinality(OccupiedSlots) + Len(FreeList) = Len(m_entity_table)

\* three entities were inserted and the last and the first of them erased, in
\* that order: two slots are in the free list, the slot between them is occupied
C33_Witness ==
    /\ FreeList = <<0, 2>>
    /\ OccupiedSlots = {1}


\* the row index of the table the iterator b of for_each is in
ForEachRow == At(fe.b.m_dispatch, fe.b.m_current_iterator)

\* C34: for_each(begin, end, f) calls f only while the iterator addresses an
\* existing row (the row index is below the size of the current table), for
\* every combination of table sizes, an empty first table and empty tables one
\* after the other included.
C34_CallbackOnExistingRow ==
    fe.pc = "callback" => ForEachRow < Len(m_handles[IteratorType(fe.Cs, fe.b)])

\* f is called in the second table after the first table, which is empty, was
\* passed
C34_Witness ==
    /\ fe.pc = "callback"
    /\ fe.b.m_current_iterator = 1
    /\ Len(m_handles[0]) = 0


RECURSIVE SumOf(_)
SumOf(s) == IF s = <<>> THEN 0 ELSE Head(s) + SumOf(Tail(s))

\* the applications of ++ to the iterator b of for_each so far: each adds one
\* to the row index of one table, and begin() starts with every index 0
ForEachIncrements == SumOf(fe.b.m_dispatch)

\* the rows of the tables of the view of for_each, and the number of the tables
ForEachRows == SumOf([i \in 1..Len(entity_types(fe.Cs)) |-> Len(m_handles[entity_types(fe.Cs)[i]])])
ForEachTables == Len(entity_types(fe.Cs))

\* C35: when the callback does not change the registry, the loop of for_each
\* from begin() to end() ends: the iterator equals the end iterator after at
\* most (rows of the tables of the view + number of these tables) applications
\* of ++, for every combination of table sizes, empty tables included.
C35_ForEachTerminates ==
    /\ [](fe.pc \in {"loop", "callback", "done"} =>
             ForEachIncrements <= ForEachRows + ForEachTables)
    /\ [](fe.pc = "done" => IteratorEq(fe.b, fe.e))
    /\ (fe.pc \in {"loop", "callback"}) ~> (fe.pc = "done")

\* a for_each over two tables, the first of them empty, has ended after as
\* many applications of ++ as the bound allows less one
C35_Witness ==
    /\ fe.pc = "done"
    /\ ForEachTables = 2
    /\ Len(m_handles[0]) = 0
    /\ ForEachRows >= 2
    /\ ForEachIncrements = ForEachRows + 1

====
